---- MODULE Spec2Model ----
(***************************************************************************)
(* Voice session pipeline of customer-support-agent-aven.                  *)
(*                                                                         *)
(* AudioPipelineService (services/audio-pipeline.service.ts) keeps three   *)
(* maps keyed by session id: audioChunks, processingSessions and           *)
(* sessionStats.  The WebSocket server (server.js) keeps the registry      *)
(* `connections` and runs one async handler per inbound message.  Node     *)
(* runs every handler on one thread: a handler runs without interruption   *)
(* up to an `await` of a collaborator (recognition, reply generation,      *)
(* synthesis) and is resumed later in its own step, so each action below   *)
(* is one such run-to-await segment.                                       *)
(*                                                                         *)
(* The chat route (app/api/chat/route.ts) keeps its sessions and its       *)
(* rate-limit counters in Redis (utils/redis.ts); each of its Redis        *)
(* commands is awaited and is one action.                                  *)
(*                                                                         *)
(* Spec is the pipeline under audio traffic of two sessions, ProtoSpec the *)
(* server under every kind of inbound message, ChatSpec the chat route,    *)
(* AudioSpec the buffer functions of AudioUtils (utils/audio.utils.ts)     *)
(* applied to small byte buffers.                                          *)
(***************************************************************************)
EXTENDS Integers, Sequences, FiniteSets, TLC

\* ---------------------------------------------------------------- bounds
Sessions == {"s1", "s2"}

\* number of audio_data messages of one run
MaxMessages == 3

\* number of WebSocket connections of one run
MaxConns == 2

\* values of Date.now() - startTime seen by processAudioChunk (0 is falsy)
Latencies == {0, 7}

\* number of POST /api/chat requests of one run
MaxRequests == 7

\* number of requests being handled at the same time
MaxConcurrent == 1

\* seconds that pass between two steps, and how often time passes in a run
Delays == {30, 60, 1800}

MaxTicks == 2

\* number of requests of one run whose reply generation fails
MaxFailures == 1

\* byte buffers given to the functions of AudioUtils: their length and the
\* values of their bytes
MaxLen == 4

ByteValues == {0, 128, 200}

\* arguments of chunkAudio: chunk duration in ms, sample rate, channels
ChunkSizes == {0, 1, 2}

Rates == {500, 1000}

ChannelCounts == {1, 2}

\* iterations of the loop of chunkAudio that a run follows
MaxIterations == 6

\* number of sockets the client creates in one run
MaxSockets == 6

\* number of calls of connect() and disconnect() by the page in one run
MaxCalls == 4

\* largest maxRetries given to retryWithBackoff
MaxRetries == 3

\* how a call of fn settles: it returns, it throws an error with status 429
\* (rate limited), with status 503 (a temporary failure of the service), or
\* an error without a status (a network timeout)
Outcomes == {"ok", "e429", "e503", "timeout"}

\* close codes of a close event: 1000 is a normal closure, 1006 an abnormal
\* one
CloseCodes == {1000, 1006}

\* ------------------------------------------------------ program constants
SampleRate == 16000

Channels == 1

MinBufferBytes == 100

MinUniqueValues == 10

\* utils/redis.ts
SESSION_TTL == 1800

RATE_LIMIT_WINDOW == 60

MAX_MESSAGES_PER_MINUTE == 5

MAX_MESSAGES_PER_SESSION == 30

\* utils/websocket.ts
maxReconnectAttempts == 5

reconnectDelay == 1000

\* The payloads a client sends: byte length and number of distinct byte
\* values.  6400 bytes are 200 ms and 16000 bytes are 500 ms of 16 kHz mono
\* 16-bit audio; the other three fail one validation rule each.
ChunkKinds ==
    { [len |-> 6400,  distinct |-> 40],
      [len |-> 16000, distinct |-> 40],
      [len |-> 98,    distinct |-> 40],
      [len |-> 6401,  distinct |-> 40],
      [len |-> 6400,  distinct |-> 9] }

ChunkIds == 1..MaxMessages

WsIds == 1..MaxConns

\* --------------------------------------------------------------- helpers
\* Map.set / Map.delete on a function whose domain is the key set
MapSet(m, k, v) == [x \in (DOMAIN m) \cup {k} |-> IF x = k THEN v ELSE m[x]]

MapDelete(m, k) == [x \in (DOMAIN m) \ {k} |-> m[x]]

EmptyMap == [x \in {} |-> 0]

RECURSIVE SumLen(_)
SumLen(chunks) ==
    IF chunks = <<>> THEN 0 ELSE Head(chunks).len + SumLen(Tail(chunks))

Ids(chunks) == {chunks[i].id : i \in 1..Len(chunks)}

\* AudioUtils.getDuration in whole milliseconds.  The code divides floats;
\* the lengths used here give whole numbers, and floor(x) < 500 iff x < 500.
getDuration(len, sampleRate, channels) ==
    (len * 1000) \div (2 * channels * sampleRate)

\* AudioUtils.mergeChunks: the chunks' bytes, concatenated in order.  A
\* buffer is modelled by the chunks whose bytes it holds.
mergeChunks(chunks) == [parts |-> chunks, length |-> SumLen(chunks)]

\* validateAudioFormat(...).isValid
validateAudioFormat_NoParity(c) ==
    /\ ~(c.len < MinBufferBytes)
    /\ ~(c.distinct < MinUniqueValues)

validateAudioFormat(c) ==
    /\ ~(c.len < MinBufferBytes)
    /\ ~(c.len % 2 # 0)
    /\ ~(c.distinct < MinUniqueValues)

\* getTotalAudioDuration: duration of Buffer.concat of the session's chunks
getTotalAudioDuration(chunks) ==
    getDuration(SumLen(chunks), SampleRate, Channels)

\* the early return of processAudioChunk: `if (totalDuration < 500) return null`
BelowThreshold_400(totalDuration) == totalDuration < 400

BelowThreshold(totalDuration) == totalDuration < 500

NewStats ==
    [totalChunks |-> 0, totalDuration |-> 0, averageChunkSize |-> 0,
     processingTimes |-> <<>>]

\* updateSessionStats(sessionId, audioData, processingTime); audioLen = 0
\* stands for `audioData === undefined` (an accepted chunk is never empty)
updateSessionStats(statsMap, sid, audioLen, processingTime) ==
    LET stats0 == IF sid \in DOMAIN statsMap THEN statsMap[sid] ELSE NewStats
        stats1 ==
            IF audioLen # 0
            THEN LET n == stats0.totalChunks + 1
                 IN [stats0 EXCEPT
                       !.totalChunks = n,
                       !.totalDuration =
                           @ + getDuration(audioLen, SampleRate, Channels),
                       !.averageChunkSize = (@ * (n - 1) + audioLen) \div n]
            ELSE stats0
        stats2 ==
            IF processingTime # 0
            THEN LET pushed == Append(stats1.processingTimes, processingTime)
                 IN [stats1 EXCEPT !.processingTimes =
                        IF Len(pushed) > 10 THEN Tail(pushed) ELSE pushed]
            ELSE stats1
    IN MapSet(statsMap, sid, stats2)

\* ----------------------------------------------------------------- state
VARIABLES
    audioChunks,         \* Map<sessionId, Buffer[]>
    processingSessions,  \* Set<sessionId>: the single-flight guard
    sessionStats,        \* Map<sessionId, stats>
    connections,         \* Map<sessionId, ws>
    wsState,             \* per ws: "new", "open" or "closed"
    wsSession,           \* per ws: the sessionId its handlers close over
    inflight,            \* suspended audio_data handlers, keyed by chunk id
    received,            \* number of audio_data payloads handled so far
    nextChunk,           \* id given to the next accepted chunk
    nextWs,              \* id of the next connection
    recognized,          \* history: per chunk id, recognition calls holding it
    deferred,            \* history: chunks appended while the guard was held
    last,                \* history: the handler that finished last
    firstSent            \* history: per ws, the first message sent on it

voiceVars ==
    <<audioChunks, processingSessions, sessionStats, connections, wsState,
      wsSession, inflight, received, nextChunk, nextWs, recognized, deferred,
      last, firstSent>>

\* ------------------------------------------------- state of the chat API
\* The chat route (app/api/chat/route.ts) keeps its state in Redis
\* (utils/redis.ts), three keys per chat session and one key per message.
\* One chat session is modelled.  A key is [present, val, ttl]: ttl is the
\* number of seconds left, or -1 for a key without expiry.  The message
\* keys are written and never read; their one-hour expiry is left out.
VARIABLES
    now,                 \* seconds since the start of the run
    ticks,               \* how often time has passed
    chatSessionKey,      \* chat_session:<id>, val is the stored ChatSession
    rateLimitKey,        \* rate_limit:<id>, val is the window counter
    messageCountKey,     \* message_count:<id>, val is the lifetime counter
    messageKeys,         \* ids of the messages:<id>:<messageId> keys
    requests,            \* POST handlers, keyed by request number
    nextReq,             \* number of the next request
    failures,            \* number of failed reply generations so far
    chatLast             \* history: the response sent last

\* History of the rate limiter: the requests that checkRateLimit allowed
\* during the life of the present window counter key, and during the life
\* of the present session key.
VARIABLES acceptedInWindow, acceptedInSession

accepted == <<acceptedInWindow, acceptedInSession>>

\* History of addMessageToSession: the ids of the messages for which a call
\* has completed during the life of the present session key, in the order
\* of completion.
VARIABLE completed

chatVars ==
    <<now, ticks, chatSessionKey, rateLimitKey, messageCountKey, messageKeys,
      requests, nextReq, failures, chatLast, accepted, completed>>

\* AudioUtils has no state of its own.  `given` is the input of the call
\* under study, `run` the call: the function, where it stands, the locals
\* of the loop of chunkAudio (i, chunks), and what it returned.
VARIABLES given, run

audioVars == <<given, run>>

\* The browser client (utils/websocket.ts), one VoiceWebSocket object.
\* `sockets` holds every WebSocket the object created, by number: its
\* readyState, whether the connection was failed (an error event is due),
\* whether its error event has fired and its close event is due in the same
\* task, and how many session_init messages were sent on it.
VARIABLES
    sockets,             \* the WebSocket objects created so far
    thisWs,              \* this.ws: a socket number, or 0 for null
    isConnecting,        \* this.isConnecting
    reconnectAttempts,   \* this.reconnectAttempts
    timers,              \* pending setTimeout callbacks, in scheduling order
    disconnected,        \* history: disconnect() ran after the last connect()
    sinceOpen,           \* history: reconnects scheduled since the last open
    clientLast,          \* history: the callback that ran last
    calls                \* history: calls by the page so far

clientVars ==
    <<sockets, thisWs, isConnecting, reconnectAttempts, timers, disconnected,
      sinceOpen, clientLast, calls>>

\* retryWithBackoff (data-management-actor/src/utils/retry.utils.ts) has no
\* state of its own.  `retryGiven` is the input of the call under study:
\* maxRetries and how the successive calls of fn settle.  `retry` is the
\* call: where it stands, the loop variable i, the number of calls of fn so
\* far, the delays waited, and what it returned or threw.
VARIABLES retryGiven, retry

retryVars == <<retryGiven, retry>>

vars == <<voiceVars, chatVars, audioVars, clientVars, retryVars>>

\* ChatSession without its timestamps (createdAt, lastActivity), which no
\* code path reads
NewSession == [messages |-> <<>>, messageCount |-> 0]

AbsentKey(v) == [present |-> FALSE, val |-> v, ttl |-> -2]

\* client.setEx(key, seconds, value)
SetEx(seconds, v) == [present |-> TRUE, val |-> v, ttl |-> seconds]

\* client.incr(key): a missing key is created at 1 and carries no expiry;
\* an existing key keeps the expiry it has
Incr(key) ==
    IF key.present THEN [key EXCEPT !.val = @ + 1]
    ELSE [present |-> TRUE, val |-> 1, ttl |-> -1]

\* client.ttl(key): -2 for a missing key, -1 for a key without expiry
Ttl(key) == IF key.present THEN key.ttl ELSE -2

\* parseInt(client.get(key)) or 0 for a missing key
GetCount(key) == IF key.present THEN key.val ELSE 0

\* expiry of a key as d seconds pass
Elapse(key, d, v) ==
    IF key.present /\ key.ttl # -1 /\ key.ttl - d <= 0 THEN AbsentKey(v)
    ELSE IF key.present /\ key.ttl # -1 THEN [key EXCEPT !.ttl = @ - d]
    ELSE key

Min(a, b) == IF a < b THEN a ELSE b

\* what a request has written so far (history): incr commands on the
\* window and the lifetime counter, messages stored in the session, and
\* whether it created the session and its counters
NoWrites == [minute |-> 0, total |-> 0, stored |-> 0, created |-> FALSE]

NoChatLast ==
    [req |-> 0, status |-> 0, remaining |-> 0, resetTime |-> 0, at |-> 0,
     did |-> NoWrites]

\* a POST handler: where it is suspended and its local variables
NewRequest ==
    [pc |-> "lookup", role |-> "user", session |-> NewSession,
     minuteCount |-> 0, totalCount |-> 0, remaining |-> 0, resetTime |-> 0,
     did |-> NoWrites]

ChatInit ==
    /\ now = 0
    /\ ticks = 0
    /\ chatSessionKey = AbsentKey(NewSession)
    /\ rateLimitKey = AbsentKey(0)
    /\ messageCountKey = AbsentKey(0)
    /\ messageKeys = {}
    /\ requests = EmptyMap
    /\ nextReq = 1
    /\ failures = 0
    /\ chatLast = NoChatLast
    /\ acceptedInWindow = 0
    /\ acceptedInSession = 0
    /\ completed = <<>>

NoResult == [transcript |-> "", confidence |-> 0, error |-> FALSE,
             audioResponse |-> FALSE, isNull |-> TRUE]

Result(transcript, confidence, error, audio) ==
    [transcript |-> transcript, confidence |-> confidence, error |-> error,
     audioResponse |-> audio, isNull |-> FALSE]

NoLast ==
    [op |-> "none", sid |-> "", h |-> 0, result |-> NoResult, ws |-> 0,
     msgs |-> <<>>, calls |-> <<>>, from |-> 0, arg |-> "",
     consumed |-> <<>>, during |-> <<>>, after |-> <<>>, guardAfter |-> FALSE]

Msg(type, sid) == [type |-> type, sessionId |-> sid]

NoMsg == Msg("", "")

\* ws.send: the messages of the handler that just ran go out on its socket;
\* the first message ever sent on a socket is remembered
NoteSent ==
    firstSent' =
        IF last'.msgs # <<>> /\ firstSent[last'.ws] = NoMsg
        THEN [firstSent EXCEPT ![last'.ws] = last'.msgs[1]]
        ELSE firstSent

PipelineInit ==
    /\ audioChunks = EmptyMap
    /\ processingSessions = {}
    /\ sessionStats = EmptyMap
    /\ connections = EmptyMap
    /\ wsState = [w \in WsIds |-> "new"]
    /\ wsSession = [w \in WsIds |-> ""]
    /\ inflight = EmptyMap
    /\ received = 0
    /\ nextChunk = 1
    /\ nextWs = 1
    /\ recognized = [c \in ChunkIds |-> 0]
    /\ deferred = {}
    /\ last = NoLast
    /\ firstSent = [w \in WsIds |-> NoMsg]

Buffers == UNION {[1..n -> ByteValues] : n \in 0..MaxLen}

NoInput ==
    [buffer |-> <<>>, chunkSizeMs |-> 0, sampleRate |-> 1000, channels |-> 1]

NoRun ==
    [fn |-> "none", pc |-> "idle", path |-> <<>>, i |-> 0, chunks |-> <<>>,
     iterations |-> 0, threw |-> FALSE, mid |-> <<>>, value |-> <<>>]

NoCall == [op |-> "none", outcome |-> "none", socket |-> 0, code |-> 0]

\* websocket.ts:10-15: the field initialisers of VoiceWebSocket
ClientInit ==
    /\ sockets = <<>>
    /\ thisWs = 0
    /\ isConnecting = FALSE
    /\ reconnectAttempts = 0
    /\ timers = <<>>
    /\ disconnected = FALSE
    /\ sinceOpen = 0
    /\ clientLast = NoCall
    /\ calls = 0

NoRetryInput ==
    [maxRetries |-> 0, settles |-> [k \in 1..MaxRetries |-> "ok"]]

NoOutcome == [kind |-> "none", call |-> 0]

RetryIdle ==
    [pc |-> "loop", i |-> 0, calls |-> 0, delays |-> <<>>,
     returned |-> NoOutcome, threw |-> NoOutcome]

Init ==
    /\ PipelineInit
    /\ ChatInit
    /\ ClientInit
    /\ retryGiven = NoRetryInput
    /\ retry = [RetryIdle EXCEPT !.pc = "idle"]
    /\ given = NoInput
    /\ run = NoRun

\* the buffer functions are applied to every small buffer
AudioInit ==
    /\ PipelineInit
    /\ ChatInit
    /\ ClientInit
    /\ retryGiven = NoRetryInput
    /\ retry = [RetryIdle EXCEPT !.pc = "idle"]
    /\ given \in [buffer : Buffers, chunkSizeMs : ChunkSizes,
                  sampleRate : Rates, channels : ChannelCounts]
    /\ run = NoRun

\* -------------------------------------------------------------- handlers
Connect_NoAck(s) ==
    /\ nextWs <= MaxConns
    /\ connections' = MapSet(connections, s, nextWs)
    /\ wsState' = [wsState EXCEPT ![nextWs] = "open"]
    /\ wsSession' = [wsSession EXCEPT ![nextWs] = s]
    /\ nextWs' = nextWs + 1
    /\ last' = [NoLast EXCEPT !.op = "connect", !.sid = s, !.ws = nextWs]
    /\ UNCHANGED <<audioChunks, processingSessions, sessionStats, inflight,
                   received, nextChunk, recognized, deferred>>
    /\ NoteSent
    /\ UNCHANGED <<chatVars, audioVars, clientVars, retryVars>>

\* wss.on('connection'): register the socket under its session id (the
\* x-session-id header, or a synthesized id) and acknowledge
Connect(s) ==
    /\ nextWs <= MaxConns
    /\ connections' = MapSet(connections, s, nextWs)
    /\ wsState' = [wsState EXCEPT ![nextWs] = "open"]
    /\ wsSession' = [wsSession EXCEPT ![nextWs] = s]
    /\ nextWs' = nextWs + 1
    /\ last' = [NoLast EXCEPT !.op = "connect", !.sid = s, !.ws = nextWs,
                   !.msgs = <<Msg("connection_established", s)>>]
    /\ UNCHANGED <<audioChunks, processingSessions, sessionStats, inflight,
                   received, nextChunk, recognized, deferred>>
    /\ NoteSent
    /\ UNCHANGED <<chatVars, audioVars, clientVars, retryVars>>

clearSession_All(sid) ==
    /\ audioChunks' = EmptyMap
    /\ processingSessions' = {}
    /\ sessionStats' = EmptyMap

\* AudioPipelineService.clearSession
clearSession(sid) ==
    /\ audioChunks' = MapDelete(audioChunks, sid)
    /\ processingSessions' = processingSessions \ {sid}
    /\ sessionStats' = MapDelete(sessionStats, sid)

\* ws.on('close'): deregister the session id and tear the session down.
\* The history of chunks awaiting a later cycle ends with the session.
Close(w) ==
    /\ wsState[w] = "open"
    /\ wsState' = [wsState EXCEPT ![w] = "closed"]
    /\ connections' = MapDelete(connections, wsSession[w])
    /\ clearSession(wsSession[w])
    /\ deferred' = {d \in deferred : d.sid # wsSession[w]}
    /\ inflight' = [h \in DOMAIN inflight |->
                       IF inflight[h].sid = wsSession[w]
                       THEN [inflight[h] EXCEPT !.during = <<>>]
                       ELSE inflight[h]]
    /\ last' = [NoLast EXCEPT !.op = "close", !.sid = wsSession[w], !.ws = w]
    /\ UNCHANGED <<wsSession, received, nextChunk, nextWs, recognized>>
    /\ NoteSent
    /\ UNCHANGED <<chatVars, audioVars, clientVars, retryVars>>

\* ws.on('error'): deregister only; the socket's 'close' follows
WsError(w) ==
    /\ wsState[w] = "open"
    /\ wsSession[w] \in DOMAIN connections
    /\ connections' = MapDelete(connections, wsSession[w])
    /\ last' = [NoLast EXCEPT !.op = "error", !.sid = wsSession[w], !.ws = w]
    /\ UNCHANGED <<audioChunks, processingSessions, sessionStats, wsState,
                   wsSession, inflight, received, nextChunk, nextWs,
                   recognized, deferred>>
    /\ NoteSent
    /\ UNCHANGED <<chatVars, audioVars, clientVars, retryVars>>

Replies_AlwaysAudio(result, sid) ==
    IF ~result.isNull /\ result.transcript # ""
    THEN <<Msg("transcription", sid), Msg("audio_response", sid)>>
    ELSE <<Msg("audio_received", sid)>>

\* what handleAudioData sends for a result of processAudioChunk
Replies(result, sid) ==
    IF ~result.isNull /\ result.transcript # ""
    THEN <<Msg("transcription", sid)>> \o
         (IF result.audioResponse
          THEN <<Msg("audio_response", sid)>> ELSE <<>>)
    ELSE <<Msg("audio_received", sid)>>

\* an audio_data message whose session id has no registered socket:
\* handleAudioData returns at `if (!ws) return`
AudioUnrouted(w) ==
    /\ received < MaxMessages
    /\ wsState[w] = "open"
    /\ wsSession[w] \notin DOMAIN connections
    /\ received' = received + 1
    /\ last' = [NoLast EXCEPT !.op = "unrouted", !.sid = wsSession[w]]
    /\ UNCHANGED <<audioChunks, processingSessions, sessionStats, connections,
                   wsState, wsSession, inflight, nextChunk, nextWs,
                   recognized, deferred>>
    /\ NoteSent
    /\ UNCHANGED <<chatVars, audioVars, clientVars, retryVars>>

AudioRejected_StoredFirst(w, kind) ==
    /\ received < MaxMessages
    /\ wsState[w] = "open"
    /\ wsSession[w] \in DOMAIN connections
    /\ ~validateAudioFormat(kind)
    /\ received' = received + 1
    /\ LET sid == wsSession[w]
           result == Result("", 0, TRUE, FALSE)
           chunk == [id |-> 0, len |-> kind.len, distinct |-> kind.distinct]
           chunks == Append(IF sid \in DOMAIN audioChunks
                            THEN audioChunks[sid] ELSE <<>>, chunk)
       IN /\ audioChunks' = MapSet(audioChunks, sid, chunks)
          /\ last' = [NoLast EXCEPT !.op = "reject", !.sid = sid,
                         !.result = result, !.ws = connections[sid],
                         !.msgs = Replies(result, sid), !.after = chunks,
                         !.guardAfter = sid \in processingSessions]
    /\ UNCHANGED <<processingSessions, sessionStats, connections, wsState,
                   wsSession, inflight, nextChunk, nextWs, recognized,
                   deferred>>
    /\ NoteSent
    /\ UNCHANGED <<chatVars, audioVars, clientVars, retryVars>>

\* an audio_data message whose payload fails validateAudioFormat: the throw
\* is caught by processAudioChunk, which returns an error result
AudioRejected(w, kind) ==
    /\ received < MaxMessages
    /\ wsState[w] = "open"
    /\ wsSession[w] \in DOMAIN connections
    /\ ~validateAudioFormat(kind)
    /\ received' = received + 1
    /\ LET sid == wsSession[w]
           result == Result("", 0, TRUE, FALSE)
       IN last' = [NoLast EXCEPT !.op = "reject", !.sid = sid,
                      !.result = result, !.ws = connections[sid],
                      !.msgs = Replies(result, sid),
                      !.after = IF sid \in DOMAIN audioChunks
                                THEN audioChunks[sid] ELSE <<>>,
                      !.guardAfter = sid \in processingSessions]
    /\ UNCHANGED <<audioChunks, processingSessions, sessionStats, connections,
                   wsState, wsSession, inflight, nextChunk, nextWs,
                   recognized, deferred>>
    /\ NoteSent
    /\ UNCHANGED <<chatVars, audioVars, clientVars, retryVars>>

AudioAccepted_Prepends(w, kind, pt) ==
    /\ received < MaxMessages
    /\ wsState[w] = "open"
    /\ wsSession[w] \in DOMAIN connections
    /\ validateAudioFormat(kind)
    /\ received' = received + 1
    /\ nextChunk' = nextChunk + 1
    /\ UNCHANGED <<connections, wsState, wsSession, nextWs>>
    /\ LET sid == wsSession[w]
           ws == connections[sid]
           h == nextChunk
           chunk == [id |-> h, len |-> kind.len, distinct |-> kind.distinct]
           fresh == sid \notin DOMAIN audioChunks
           chunks == <<chunk>> \o (IF fresh THEN <<>> ELSE audioChunks[sid])
           stats == updateSessionStats(
                        IF fresh THEN MapSet(sessionStats, sid, NewStats)
                                 ELSE sessionStats,
                        sid, chunk.len, 0)
           noted == [x \in DOMAIN inflight |->
                        IF inflight[x].sid = sid
                        THEN [inflight[x] EXCEPT !.during = Append(@, chunk)]
                        ELSE inflight[x]]
       IN
       /\ audioChunks' = MapSet(audioChunks, sid, chunks)
       /\ IF BelowThreshold(getTotalAudioDuration(chunks))
          THEN \* `return null`: acknowledged, nothing processed
               /\ sessionStats' = stats
               /\ inflight' = noted
               /\ deferred' =
                     IF sid \in processingSessions
                     THEN deferred \cup {[id |-> h, sid |-> sid]}
                     ELSE deferred
               /\ last' = [NoLast EXCEPT !.op = "append", !.sid = sid,
                              !.h = h, !.ws = ws,
                              !.msgs = Replies(NoResult, sid),
                              !.after = chunks]
               /\ UNCHANGED <<processingSessions, recognized>>
          ELSE IF sid \in processingSessions
          THEN \* processAccumulatedAudio returns at once: guard held
               LET result == Result("", 0, FALSE, FALSE)
               IN /\ sessionStats' =
                        IF pt # 0 THEN updateSessionStats(stats, sid, 0, pt)
                                  ELSE stats
                  /\ inflight' = noted
                  /\ deferred' = deferred \cup {[id |-> h, sid |-> sid]}
                  /\ last' = [NoLast EXCEPT !.op = "deferred", !.sid = sid,
                                 !.h = h, !.result = result, !.ws = ws,
                                 !.msgs = Replies(result, sid),
                                 !.after = chunks, !.guardAfter = TRUE]
                  /\ UNCHANGED <<processingSessions, recognized>>
          ELSE \* guard taken, chunks merged, recognition awaited
               /\ sessionStats' = stats
               /\ processingSessions' = processingSessions \cup {sid}
               /\ inflight' =
                     MapSet(noted, h,
                            [sid |-> sid, ws |-> ws, pc |-> "recognize",
                             calls |-> <<"recognize">>,
                             merged |-> mergeChunks(chunks),
                             during |-> <<>>])
               /\ recognized' = [c \in ChunkIds |->
                                    IF c \in Ids(chunks) THEN recognized[c] + 1
                                    ELSE recognized[c]]
               /\ last' = [NoLast EXCEPT !.op = "start", !.sid = sid, !.h = h,
                              !.ws = ws, !.consumed = chunks,
                              !.calls = <<"recognize">>,
                              !.after = chunks, !.guardAfter = TRUE]
               /\ UNCHANGED deferred
    /\ NoteSent
    /\ UNCHANGED <<chatVars, audioVars, clientVars, retryVars>>

\* an audio_data message with a valid payload: handleAudioData up to the
\* first await of a collaborator, or to its end when nothing is awaited
AudioAccepted(w, kind, pt) ==
    /\ received < MaxMessages
    /\ wsState[w] = "open"
    /\ wsSession[w] \in DOMAIN connections
    /\ validateAudioFormat(kind)
    /\ received' = received + 1
    /\ nextChunk' = nextChunk + 1
    /\ UNCHANGED <<connections, wsState, wsSession, nextWs>>
    /\ LET sid == wsSession[w]
           ws == connections[sid]
           h == nextChunk
           chunk == [id |-> h, len |-> kind.len, distinct |-> kind.distinct]
           fresh == sid \notin DOMAIN audioChunks
           chunks == Append(IF fresh THEN <<>> ELSE audioChunks[sid], chunk)
           stats == updateSessionStats(
                        IF fresh THEN MapSet(sessionStats, sid, NewStats)
                                 ELSE sessionStats,
                        sid, chunk.len, 0)
           noted == [x \in DOMAIN inflight |->
                        IF inflight[x].sid = sid
                        THEN [inflight[x] EXCEPT !.during = Append(@, chunk)]
                        ELSE inflight[x]]
       IN
       /\ audioChunks' = MapSet(audioChunks, sid, chunks)
       /\ IF BelowThreshold(getTotalAudioDuration(chunks))
          THEN \* `return null`: acknowledged, nothing processed
               /\ sessionStats' = stats
               /\ inflight' = noted
               /\ deferred' =
                     IF sid \in processingSessions
                     THEN deferred \cup {[id |-> h, sid |-> sid]}
                     ELSE deferred
               /\ last' = [NoLast EXCEPT !.op = "append", !.sid = sid,
                              !.h = h, !.ws = ws,
                              !.msgs = Replies(NoResult, sid),
                              !.after = chunks]
               /\ UNCHANGED <<processingSessions, recognized>>
          ELSE IF sid \in processingSessions
          THEN \* processAccumulatedAudio returns at once: guard held
               LET result == Result("", 0, FALSE, FALSE)
               IN /\ sessionStats' =
                        IF pt # 0 THEN updateSessionStats(stats, sid, 0, pt)
                                  ELSE stats
                  /\ inflight' = noted
                  /\ deferred' = deferred \cup {[id |-> h, sid |-> sid]}
                  /\ last' = [NoLast EXCEPT !.op = "deferred", !.sid = sid,
                                 !.h = h, !.result = result, !.ws = ws,
                                 !.msgs = Replies(result, sid),
                                 !.after = chunks, !.guardAfter = TRUE]
                  /\ UNCHANGED <<processingSessions, recognized>>
          ELSE \* guard taken, chunks merged, recognition awaited
               /\ sessionStats' = stats
               /\ processingSessions' = processingSessions \cup {sid}
               /\ inflight' =
                     MapSet(noted, h,
                            [sid |-> sid, ws |-> ws, pc |-> "recognize",
                             calls |-> <<"recognize">>,
                             merged |-> mergeChunks(chunks),
                             during |-> <<>>])
               /\ recognized' = [c \in ChunkIds |->
                                    IF c \in Ids(chunks) THEN recognized[c] + 1
                                    ELSE recognized[c]]
               /\ last' = [NoLast EXCEPT !.op = "start", !.sid = sid, !.h = h,
                              !.ws = ws, !.consumed = chunks,
                              !.calls = <<"recognize">>,
                              !.after = chunks, !.guardAfter = TRUE]
               /\ UNCHANGED deferred
    /\ NoteSent
    /\ UNCHANGED <<chatVars, audioVars, clientVars, retryVars>>

Finish_AcksToo(h, exit, result, pt) ==
    LET c == inflight[h]
    IN /\ sessionStats' =
             IF pt # 0 THEN updateSessionStats(sessionStats, c.sid, 0, pt)
                       ELSE sessionStats
       /\ inflight' = MapDelete(inflight, h)
       /\ last' = [op |-> exit, sid |-> c.sid, h |-> h, result |-> result,
                   ws |-> c.ws,
                   msgs |-> Append(Replies(result, c.sid),
                                   Msg("audio_received", c.sid)),
                   calls |-> c.calls, from |-> 0, arg |-> "",
                   consumed |-> c.merged.parts, during |-> c.during,
                   after |-> IF c.sid \in DOMAIN audioChunks'
                             THEN audioChunks'[c.sid] ELSE <<>>,
                   guardAfter |-> c.sid \in processingSessions']
       /\ UNCHANGED <<connections, wsState, wsSession, received, nextChunk,
                      nextWs, recognized, deferred>>
       /\ NoteSent
       /\ UNCHANGED <<chatVars, audioVars, clientVars, retryVars>>

\* The rest of a handler once processAccumulatedAudio has its result: the
\* latency is recorded when it is non-zero, and handleAudioData sends its
\* replies on the socket it looked up when the message arrived.
Finish(h, exit, result, pt) ==
    LET c == inflight[h]
    IN /\ sessionStats' =
             IF pt # 0 THEN updateSessionStats(sessionStats, c.sid, 0, pt)
                       ELSE sessionStats
       /\ inflight' = MapDelete(inflight, h)
       /\ last' = [op |-> exit, sid |-> c.sid, h |-> h, result |-> result,
                   ws |-> c.ws, msgs |-> Replies(result, c.sid),
                   calls |-> c.calls, from |-> 0, arg |-> "",
                   consumed |-> c.merged.parts, during |-> c.during,
                   after |-> IF c.sid \in DOMAIN audioChunks'
                             THEN audioChunks'[c.sid] ELSE <<>>,
                   guardAfter |-> c.sid \in processingSessions']
       /\ UNCHANGED <<connections, wsState, wsSession, received, nextChunk,
                      nextWs, recognized, deferred>>
       /\ NoteSent
       /\ UNCHANGED <<chatVars, audioVars, clientVars, retryVars>>

ReleaseKeepBuffer_NoRelease(sid) ==
    /\ UNCHANGED processingSessions
    /\ UNCHANGED audioChunks

\* catch block of processAccumulatedAudio: the guard is released, the
\* buffer is left as it is
ReleaseKeepBuffer(sid) ==
    /\ processingSessions' = processingSessions \ {sid}
    /\ UNCHANGED audioChunks

\* "Clear processed chunks": the buffer is replaced by an empty one and the
\* guard is released
ReleaseClearBuffer(sid) ==
    /\ audioChunks' = MapSet(audioChunks, sid, <<>>)
    /\ processingSessions' = processingSessions \ {sid}

Suspended(h, pc) == h \in DOMAIN inflight /\ inflight[h].pc = pc

Resume_CallsAgain(h, pc) ==
    /\ inflight' = [inflight EXCEPT ![h].pc = pc,
                       ![h].calls = Append(Append(@, inflight[h].pc), pc)]
    /\ UNCHANGED <<audioChunks, processingSessions, sessionStats, connections,
                   wsState, wsSession, received, nextChunk, nextWs,
                   recognized, deferred, last, firstSent>>
    /\ UNCHANGED <<chatVars, audioVars, clientVars, retryVars>>

\* a collaborator resolved and the cycle awaits the next one
Resume(h, pc) ==
    /\ inflight' = [inflight EXCEPT ![h].pc = pc, ![h].calls = Append(@, pc)]
    /\ UNCHANGED <<audioChunks, processingSessions, sessionStats, connections,
                   wsState, wsSession, received, nextChunk, nextWs,
                   recognized, deferred, last, firstSent>>
    /\ UNCHANGED <<chatVars, audioVars, clientVars, retryVars>>

\* speechService.processAudioChunk settles: it rejects, resolves to null or
\* a blank transcript, or resolves to a transcript
RecognizeReturn(h, outcome, pt) ==
    /\ Suspended(h, "recognize")
    /\ CASE outcome = "throw" ->
              /\ ReleaseKeepBuffer(inflight[h].sid)
              /\ Finish(h, "throw_recognize", Result("", 0, TRUE, FALSE), pt)
         [] outcome = "blank" ->
              /\ ReleaseClearBuffer(inflight[h].sid)
              /\ Finish(h, "blank", Result("", 0, FALSE, FALSE), pt)
         [] outcome = "text" -> Resume(h, "reply")

\* generateAIResponse settles; it catches every failure of the chat API
\* (network error, non-2xx status such as 429) and returns null, as it does
\* for a response without a message
ReplyReturn(h, outcome, pt) ==
    /\ Suspended(h, "reply")
    /\ CASE outcome = "failed" ->
              /\ ReleaseClearBuffer(inflight[h].sid)
              /\ Finish(h, "reply_failed", Result("text", 1, FALSE, FALSE), pt)
         [] outcome = "empty" ->
              /\ ReleaseClearBuffer(inflight[h].sid)
              /\ Finish(h, "reply_null", Result("text", 1, FALSE, FALSE), pt)
         [] outcome = "text" -> Resume(h, "synthesize")

\* ttsService.streamTextToSpeech settles
SynthesizeReturn(h, outcome, pt) ==
    /\ Suspended(h, "synthesize")
    /\ CASE outcome = "throw" ->
              /\ ReleaseKeepBuffer(inflight[h].sid)
              /\ Finish(h, "throw_synthesize", Result("", 0, TRUE, FALSE), pt)
         [] outcome = "audio" ->
              /\ ReleaseClearBuffer(inflight[h].sid)
              /\ Finish(h, "ok", Result("text", 1, FALSE, TRUE), pt)

\* ---------------------------------------------------- control messages
\* The other branches of ws.on('message').  They change no state of the
\* server; `last` records the socket the message arrived on (from), the
\* socket the answer is sent on (ws) and the answer (msgs).
pipelineAndSockets ==
    <<audioChunks, processingSessions, sessionStats, connections, wsState,
      wsSession, inflight, received, nextChunk, nextWs, recognized, deferred>>

\* what a handler that answers through the registry sends: nothing when
\* the session id has no entry (`if (!ws) return`)
Routed(w, op, arg, type) ==
    LET sid == wsSession[w]
    IN IF sid \in DOMAIN connections
       THEN [NoLast EXCEPT !.op = op, !.sid = sid, !.from = w, !.arg = arg,
                !.ws = connections[sid], !.msgs = <<Msg(type, sid)>>]
       ELSE [NoLast EXCEPT !.op = op, !.sid = sid, !.from = w, !.arg = arg]

Ping_Twice(w) ==
    /\ wsState[w] = "open"
    /\ last' = [NoLast EXCEPT !.op = "ping", !.sid = wsSession[w],
                   !.from = w, !.ws = w,
                   !.msgs = <<Msg("pong", ""), Msg("pong", "")>>]
    /\ UNCHANGED pipelineAndSockets
    /\ NoteSent
    /\ UNCHANGED <<chatVars, audioVars, clientVars, retryVars>>

\* case 'ping': pong on the socket the ping arrived on
Ping(w) ==
    /\ wsState[w] = "open"
    /\ last' = [NoLast EXCEPT !.op = "ping", !.sid = wsSession[w],
                   !.from = w, !.ws = w, !.msgs = <<Msg("pong", "")>>]
    /\ UNCHANGED pipelineAndSockets
    /\ NoteSent
    /\ UNCHANGED <<chatVars, audioVars, clientVars, retryVars>>

UnknownType_Error(w) ==
    /\ wsState[w] = "open"
    /\ last' = [NoLast EXCEPT !.op = "unknown", !.sid = wsSession[w],
                   !.from = w, !.ws = w, !.msgs = <<Msg("error", "")>>]
    /\ UNCHANGED pipelineAndSockets
    /\ NoteSent
    /\ UNCHANGED <<chatVars, audioVars, clientVars, retryVars>>

\* default: a message whose type is none of the five; console.warn only
UnknownType(w) ==
    /\ wsState[w] = "open"
    /\ last' = [NoLast EXCEPT !.op = "unknown", !.sid = wsSession[w],
                   !.from = w]
    /\ UNCHANGED pipelineAndSockets
    /\ NoteSent
    /\ UNCHANGED <<chatVars, audioVars, clientVars, retryVars>>

\* a message that is not JSON, or a JSON value without a `type` to read:
\* the catch of ws.on('message') sends `error` on the handler's own socket
ParseFailure(w) ==
    /\ wsState[w] = "open"
    /\ last' = [NoLast EXCEPT !.op = "parse_error", !.sid = wsSession[w],
                   !.from = w, !.ws = w, !.msgs = <<Msg("error", "")>>]
    /\ UNCHANGED pipelineAndSockets
    /\ NoteSent
    /\ UNCHANGED <<chatVars, audioVars, clientVars, retryVars>>

\* an audio_data message without a string `data`: Buffer.from throws inside
\* handleAudioData, whose catch sends `error` on the registered socket
AudioMalformed(w) ==
    /\ wsState[w] = "open"
    /\ wsSession[w] \in DOMAIN connections
    /\ last' = Routed(w, "handler_error", "", "error")
    /\ UNCHANGED pipelineAndSockets
    /\ NoteSent
    /\ UNCHANGED <<chatVars, audioVars, clientVars, retryVars>>

\* case 'session_init' with message.sessionId = S: handleSessionInit is
\* called with the connection's own sessionId and does not read the message
SessionInit(w, S) ==
    /\ wsState[w] = "open"
    /\ last' = Routed(w, "session_init", S, "connection_established")
    /\ UNCHANGED pipelineAndSockets
    /\ NoteSent
    /\ UNCHANGED <<chatVars, audioVars, clientVars, retryVars>>

\* case 'start_streaming'
StartStreaming(w) ==
    /\ wsState[w] = "open"
    /\ last' = Routed(w, "start_streaming", "", "streaming_started")
    /\ UNCHANGED pipelineAndSockets
    /\ NoteSent
    /\ UNCHANGED <<chatVars, audioVars, clientVars, retryVars>>

\* case 'stop_streaming'
StopStreaming(w) ==
    /\ wsState[w] = "open"
    /\ last' = Routed(w, "stop_streaming", "", "streaming_stopped")
    /\ UNCHANGED pipelineAndSockets
    /\ NoteSent
    /\ UNCHANGED <<chatVars, audioVars, clientVars, retryVars>>

NextFor(ids) ==
    \/ \E s \in ids : Connect(s)
    \/ \E w \in WsIds : Close(w)
    \/ \E w \in WsIds : WsError(w)
    \/ \E w \in WsIds : AudioUnrouted(w)
    \/ \E w \in WsIds, kind \in ChunkKinds : AudioRejected(w, kind)
    \/ \E w \in WsIds, kind \in ChunkKinds, pt \in Latencies :
          AudioAccepted(w, kind, pt)
    \/ \E h \in ChunkIds, outcome \in {"throw", "blank", "text"},
          pt \in Latencies : RecognizeReturn(h, outcome, pt)
    \/ \E h \in ChunkIds, outcome \in {"failed", "empty", "text"},
          pt \in Latencies : ReplyReturn(h, outcome, pt)
    \/ \E h \in ChunkIds, outcome \in {"throw", "audio"},
          pt \in Latencies : SynthesizeReturn(h, outcome, pt)

Next == NextFor(Sessions)

Spec == Init /\ [][Next]_vars

\* Each collaborator call settles: it returns or throws.  Whether a cycle
\* ends does not depend on the other sessions, so the clients of this
\* specification all use one session id.
FairNext == NextFor({"s1"})

FairSpec ==
    /\ Init /\ [][FairNext]_vars
    /\ \A h \in ChunkIds :
          /\ WF_vars(\E o \in {"throw", "blank", "text"}, pt \in Latencies :
                        RecognizeReturn(h, o, pt))
          /\ WF_vars(\E o \in {"failed", "empty", "text"}, pt \in Latencies :
                        ReplyReturn(h, o, pt))
          /\ WF_vars(\E o \in {"throw", "audio"}, pt \in Latencies :
                        SynthesizeReturn(h, o, pt))

\* The server with every kind of inbound message.  The connections use one
\* session id; a session_init message may name either id.
ProtoNext ==
    \/ NextFor({"s1"})
    \/ \E w \in WsIds : Ping(w)
    \/ \E w \in WsIds : UnknownType(w)
    \/ \E w \in WsIds : ParseFailure(w)
    \/ \E w \in WsIds : AudioMalformed(w)
    \/ \E w \in WsIds, S \in Sessions : SessionInit(w, S)
    \/ \E w \in WsIds : StartStreaming(w)
    \/ \E w \in WsIds : StopStreaming(w)

ProtoSpec == Init /\ [][ProtoNext]_vars

\* ------------------------------------------------------- POST /api/chat
\* One action per Redis command of the handler: every command is awaited,
\* so other requests and the passing of time interleave between them.
keys == <<chatSessionKey, rateLimitKey, messageCountKey, messageKeys>>

counters == <<nextReq, failures>>

At(r, pc) == r \in DOMAIN requests /\ requests[r].pc = pc

Goto(r, pc) == requests' = [requests EXCEPT ![r].pc = pc]

\* NextResponse.json(...): the handler ends
Respond(r, status, remaining, resetTime) ==
    /\ requests' = MapDelete(requests, r)
    /\ chatLast' = [req |-> r, status |-> status, remaining |-> remaining,
                    resetTime |-> resetTime, at |-> now * 1000,
                    did |-> requests[r].did]

\* ids of the two messages of a request: Date.now() and Date.now() + 1
MsgId(r, role) == 2 * r + (IF role = "assistant" THEN 1 ELSE 0)

\* time passes: keys with an expiry lose d seconds and vanish at 0
Tick(d) ==
    /\ ticks < MaxTicks
    /\ ticks' = ticks + 1
    /\ now' = now + d
    /\ chatSessionKey' = Elapse(chatSessionKey, d, NewSession)
    /\ rateLimitKey' = Elapse(rateLimitKey, d, 0)
    /\ messageCountKey' = Elapse(messageCountKey, d, 0)
    /\ acceptedInWindow' =
          IF Elapse(rateLimitKey, d, 0).present THEN acceptedInWindow ELSE 0
    /\ acceptedInSession' =
          IF Elapse(chatSessionKey, d, NewSession).present
          THEN acceptedInSession ELSE 0
    /\ completed' =
          IF Elapse(chatSessionKey, d, NewSession).present
          THEN completed ELSE <<>>
    /\ UNCHANGED <<messageKeys, requests, counters, chatLast>>
    /\ UNCHANGED <<voiceVars, audioVars, clientVars, retryVars>>

\* POST: request.json() and chatRequestSchema.parse; a body that fails the
\* schema is answered 400 and is given no request number here
ChatPostWithin(valid, maxRequests, maxConcurrent) ==
    /\ nextReq <= maxRequests
    /\ Cardinality(DOMAIN requests) < maxConcurrent
    /\ IF valid
       THEN /\ requests' = MapSet(requests, nextReq, NewRequest)
            /\ nextReq' = nextReq + 1
            /\ UNCHANGED chatLast
       ELSE /\ chatLast' = [NoChatLast EXCEPT !.status = 400,
                                              !.at = now * 1000]
            /\ UNCHANGED <<requests, nextReq>>
    /\ UNCHANGED <<now, ticks, keys, failures>>
    /\ UNCHANGED <<accepted, completed>>
    /\ UNCHANGED <<voiceVars, audioVars, clientVars, retryVars>>

ChatPost(valid) == ChatPostWithin(valid, MaxRequests, MaxConcurrent)

\* getChatSession: is there a session?
GetSession(r) ==
    /\ At(r, "lookup")
    /\ Goto(r, IF chatSessionKey.present THEN "touch_get"
                                         ELSE "create_session")
    /\ UNCHANGED <<now, ticks, keys, counters, chatLast>>
    /\ UNCHANGED <<accepted, completed>>
    /\ UNCHANGED <<voiceVars, audioVars, clientVars, retryVars>>

\* createChatSession, its three setEx commands
CreateSessionKey(r) ==
    /\ At(r, "create_session")
    /\ chatSessionKey' = SetEx(SESSION_TTL, NewSession)
    /\ requests' = [requests EXCEPT ![r].pc = "create_rate",
                                    ![r].did.created = TRUE]
    /\ acceptedInSession' = 0
    /\ completed' = <<>>
    /\ UNCHANGED <<now, ticks, rateLimitKey, messageCountKey, messageKeys,
                   counters, chatLast, acceptedInWindow>>
    /\ UNCHANGED <<voiceVars, audioVars, clientVars, retryVars>>

CreateRateKey(r) ==
    /\ At(r, "create_rate")
    /\ rateLimitKey' = SetEx(RATE_LIMIT_WINDOW, 0)
    /\ Goto(r, "create_count")
    /\ acceptedInWindow' = 0
    /\ UNCHANGED <<now, ticks, chatSessionKey, messageCountKey, messageKeys,
                   counters, chatLast, acceptedInSession, completed>>
    /\ UNCHANGED <<voiceVars, audioVars, clientVars, retryVars>>

CreateCountKey(r) ==
    /\ At(r, "create_count")
    /\ messageCountKey' = SetEx(SESSION_TTL, 0)
    /\ Goto(r, "check_minute")
    /\ UNCHANGED <<now, ticks, chatSessionKey, rateLimitKey, messageKeys,
                   counters, chatLast>>
    /\ UNCHANGED <<accepted, completed>>
    /\ UNCHANGED <<voiceVars, audioVars, clientVars, retryVars>>

\* updateSessionActivity: get, then setEx of what was read; a session gone
\* in between throws and the request is answered 500
TouchGet(r) ==
    /\ At(r, "touch_get")
    /\ IF chatSessionKey.present
       THEN /\ requests' = [requests EXCEPT
                               ![r].pc = "touch_set",
                               ![r].session = chatSessionKey.val]
            /\ UNCHANGED chatLast
       ELSE Respond(r, 500, 0, 0)
    /\ UNCHANGED <<now, ticks, keys, counters>>
    /\ UNCHANGED <<accepted, completed>>
    /\ UNCHANGED <<voiceVars, audioVars, clientVars, retryVars>>

TouchSet(r) ==
    /\ At(r, "touch_set")
    /\ chatSessionKey' = SetEx(SESSION_TTL, requests[r].session)
    /\ Goto(r, "check_minute")
    /\ UNCHANGED <<now, ticks, rateLimitKey, messageCountKey, messageKeys,
                   counters, chatLast>>
    /\ UNCHANGED <<accepted, completed>>
    /\ UNCHANGED <<voiceVars, audioVars, clientVars, retryVars>>

\* checkRateLimit: get of the window counter
CheckMinute(r) ==
    /\ At(r, "check_minute")
    /\ requests' = [requests EXCEPT
                       ![r].pc = "check_total",
                       ![r].minuteCount = GetCount(rateLimitKey)]
    /\ UNCHANGED <<now, ticks, keys, counters, chatLast>>
    /\ UNCHANGED <<accepted, completed>>
    /\ UNCHANGED <<voiceVars, audioVars, clientVars, retryVars>>

\* checkRateLimit: get of the lifetime counter
CheckTotal(r) ==
    /\ At(r, "check_total")
    /\ requests' = [requests EXCEPT
                       ![r].pc = "check_ttl",
                       ![r].totalCount = GetCount(messageCountKey)]
    /\ UNCHANGED <<now, ticks, keys, counters, chatLast>>
    /\ UNCHANGED <<accepted, completed>>
    /\ UNCHANGED <<voiceVars, audioVars, clientVars, retryVars>>

CheckTtl_AtMost(r) ==
    /\ At(r, "check_ttl")
    /\ LET minuteCount == requests[r].minuteCount
           totalCount == requests[r].totalCount
           allowed == /\ minuteCount <= MAX_MESSAGES_PER_MINUTE
                      /\ totalCount < MAX_MESSAGES_PER_SESSION
           remaining == Min(MAX_MESSAGES_PER_MINUTE - minuteCount,
                            MAX_MESSAGES_PER_SESSION - totalCount)
           resetTime == now * 1000 + Ttl(rateLimitKey) * 1000
       IN IF allowed
          THEN /\ requests' = [requests EXCEPT
                                  ![r].pc = "incr_minute",
                                  ![r].remaining = remaining,
                                  ![r].resetTime = resetTime]
               /\ acceptedInWindow' = acceptedInWindow + 1
               /\ acceptedInSession' = acceptedInSession + 1
               /\ UNCHANGED chatLast
          ELSE /\ Respond(r, 429, remaining, resetTime)
               /\ UNCHANGED <<accepted, completed>>
    /\ UNCHANGED <<now, ticks, keys, counters, completed>>
    /\ UNCHANGED <<voiceVars, audioVars, clientVars, retryVars>>

\* checkRateLimit: ttl of the window counter, the verdict, and the 429 of
\* the route when the verdict is a refusal
CheckTtl(r) ==
    /\ At(r, "check_ttl")
    /\ LET minuteCount == requests[r].minuteCount
           totalCount == requests[r].totalCount
           allowed == /\ minuteCount < MAX_MESSAGES_PER_MINUTE
                      /\ totalCount < MAX_MESSAGES_PER_SESSION
           remaining == Min(MAX_MESSAGES_PER_MINUTE - minuteCount,
                            MAX_MESSAGES_PER_SESSION - totalCount)
           resetTime == now * 1000 + Ttl(rateLimitKey) * 1000
       IN IF allowed
          THEN /\ requests' = [requests EXCEPT
                                  ![r].pc = "incr_minute",
                                  ![r].remaining = remaining,
                                  ![r].resetTime = resetTime]
               /\ acceptedInWindow' = acceptedInWindow + 1
               /\ acceptedInSession' = acceptedInSession + 1
               /\ UNCHANGED chatLast
          ELSE /\ Respond(r, 429, remaining, resetTime)
               /\ UNCHANGED <<accepted, completed>>
    /\ UNCHANGED <<now, ticks, keys, counters, completed>>
    /\ UNCHANGED <<voiceVars, audioVars, clientVars, retryVars>>

\* incrementRateLimit, its two incr commands
IncrMinute(r) ==
    /\ At(r, "incr_minute")
    /\ rateLimitKey' = Incr(rateLimitKey)
    /\ requests' = [requests EXCEPT ![r].pc = "incr_total",
                                    ![r].did.minute = @ + 1]
    /\ UNCHANGED <<now, ticks, chatSessionKey, messageCountKey, messageKeys,
                   counters, chatLast>>
    /\ UNCHANGED <<accepted, completed>>
    /\ UNCHANGED <<voiceVars, audioVars, clientVars, retryVars>>

IncrTotal_Skips(r) ==
    /\ At(r, "incr_total")
    /\ UNCHANGED messageCountKey
    /\ Goto(r, "add_get")
    /\ UNCHANGED <<now, ticks, chatSessionKey, rateLimitKey, messageKeys,
                   counters, chatLast>>
    /\ UNCHANGED <<accepted, completed>>
    /\ UNCHANGED <<voiceVars, audioVars, clientVars, retryVars>>

IncrTotal(r) ==
    /\ At(r, "incr_total")
    /\ messageCountKey' = Incr(messageCountKey)
    /\ requests' = [requests EXCEPT ![r].pc = "add_get",
                                    ![r].did.total = @ + 1]
    /\ UNCHANGED <<now, ticks, chatSessionKey, rateLimitKey, messageKeys,
                   counters, chatLast>>
    /\ UNCHANGED <<accepted, completed>>
    /\ UNCHANGED <<voiceVars, audioVars, clientVars, retryVars>>

\* addMessageToSession: get of the session; a missing session throws
AddGet(r) ==
    /\ At(r, "add_get")
    /\ IF chatSessionKey.present
       THEN /\ requests' = [requests EXCEPT
                               ![r].pc = "add_set",
                               ![r].session = chatSessionKey.val]
            /\ UNCHANGED chatLast
       ELSE Respond(r, 500, 0, 0)
    /\ UNCHANGED <<now, ticks, keys, counters>>
    /\ UNCHANGED <<accepted, completed>>
    /\ UNCHANGED <<voiceVars, audioVars, clientVars, retryVars>>

\* addMessageToSession: setEx of the session read, with the message pushed
AddSet(r) ==
    /\ At(r, "add_set")
    /\ LET messages == Append(requests[r].session.messages,
                              [req |-> r, role |-> requests[r].role])
       IN chatSessionKey' =
             SetEx(SESSION_TTL,
                   [messages |-> messages, messageCount |-> Len(messages)])
    /\ requests' = [requests EXCEPT ![r].pc = "add_key",
                                    ![r].did.stored = @ + 1]
    /\ UNCHANGED <<now, ticks, rateLimitKey, messageCountKey, messageKeys,
                   counters, chatLast>>
    /\ UNCHANGED <<accepted, completed>>
    /\ UNCHANGED <<voiceVars, audioVars, clientVars, retryVars>>

\* addMessageToSession: setEx of the message's own key.  After the user
\* message the reply is generated; after the assistant message the
\* request is answered 200.
AddKey(r) ==
    /\ At(r, "add_key")
    /\ messageKeys' = messageKeys \cup {MsgId(r, requests[r].role)}
    /\ IF requests[r].role = "user"
       THEN /\ Goto(r, "generate")
            /\ UNCHANGED chatLast
       ELSE Respond(r, 200, requests[r].remaining - 1,
                    requests[r].resetTime)
    /\ completed' = Append(completed, MsgId(r, requests[r].role))
    /\ UNCHANGED <<now, ticks, chatSessionKey, rateLimitKey, messageCountKey,
                   counters>>
    /\ UNCHANGED accepted
    /\ UNCHANGED <<voiceVars, audioVars, clientVars, retryVars>>

\* embedding, vector search, history read and completion (route.ts:93-157):
\* they write nothing; a failure or an empty completion is answered 500
Generate(r, outcome) ==
    /\ At(r, "generate")
    /\ IF outcome = "reply"
       THEN /\ requests' = [requests EXCEPT ![r].pc = "add_get",
                                            ![r].role = "assistant"]
            /\ UNCHANGED <<chatLast, failures>>
       ELSE /\ failures < MaxFailures
            /\ failures' = failures + 1
            /\ Respond(r, 500, 0, 0)
    /\ UNCHANGED <<now, ticks, keys, nextReq>>
    /\ UNCHANGED <<accepted, completed>>
    /\ UNCHANGED <<voiceVars, audioVars, clientVars, retryVars>>

RequestIds == 1..MaxRequests

ChatNext ==
    \/ \E d \in Delays : Tick(d)
    \/ \E valid \in BOOLEAN : ChatPost(valid)
    \/ \E r \in RequestIds : GetSession(r)
    \/ \E r \in RequestIds : CreateSessionKey(r)
    \/ \E r \in RequestIds : CreateRateKey(r)
    \/ \E r \in RequestIds : CreateCountKey(r)
    \/ \E r \in RequestIds : TouchGet(r)
    \/ \E r \in RequestIds : TouchSet(r)
    \/ \E r \in RequestIds : CheckMinute(r)
    \/ \E r \in RequestIds : CheckTotal(r)
    \/ \E r \in RequestIds : CheckTtl(r)
    \/ \E r \in RequestIds : IncrMinute(r)
    \/ \E r \in RequestIds : IncrTotal(r)
    \/ \E r \in RequestIds : AddGet(r)
    \/ \E r \in RequestIds : AddSet(r)
    \/ \E r \in RequestIds : AddKey(r)
    \/ \E r \in RequestIds, outcome \in {"reply", "empty", "throw"} :
          Generate(r, outcome)

ChatSpec == Init /\ [][ChatNext]_vars

\* Two requests for the same chat session whose handlers interleave at
\* their awaits, as when the voice channel (generateAIResponse posts to
\* this route) and the text channel share a session.  No time passes.
RaceRequests == 2

RaceConcurrent == 2

RaceNext ==
    \/ \E valid \in BOOLEAN :
          ChatPostWithin(valid, RaceRequests, RaceConcurrent)
    \/ \E r \in RequestIds : GetSession(r)
    \/ \E r \in RequestIds : CreateSessionKey(r)
    \/ \E r \in RequestIds : CreateRateKey(r)
    \/ \E r \in RequestIds : CreateCountKey(r)
    \/ \E r \in RequestIds : TouchGet(r)
    \/ \E r \in RequestIds : TouchSet(r)
    \/ \E r \in RequestIds : CheckMinute(r)
    \/ \E r \in RequestIds : CheckTotal(r)
    \/ \E r \in RequestIds : CheckTtl(r)
    \/ \E r \in RequestIds : IncrMinute(r)
    \/ \E r \in RequestIds : IncrTotal(r)
    \/ \E r \in RequestIds : AddGet(r)
    \/ \E r \in RequestIds : AddSet(r)
    \/ \E r \in RequestIds : AddKey(r)
    \/ \E r \in RequestIds, outcome \in {"reply", "empty", "throw"} :
          Generate(r, outcome)

RaceSpec == Init /\ [][RaceNext]_vars

\* ------------------------------------------------------------ AudioUtils
\* A Buffer is the sequence of its bytes, 0..255.

Zeros(n) == [k \in 1..n |-> 0]

\* buffer.slice(start, end), both clamped to the length
Slice(b, start, end) ==
    SubSeq(b, Min(start, Len(b)) + 1, Min(end, Len(b)))

RECURSIVE Concat(_)
\* Buffer.concat(list)
Concat(list) ==
    IF list = <<>> THEN <<>> ELSE Head(list) \o Concat(Tail(list))

Abs(x) == IF x < 0 THEN -x ELSE x

Max(a, b) == IF a > b THEN a ELSE b

convertChannels_SumsChannels(audioBuffer, fromChannels, toChannels) ==
    IF fromChannels = toChannels THEN audioBuffer
    ELSE IF fromChannels = 1 /\ toChannels = 2
    THEN [k \in 1..(2 * Len(audioBuffer)) |-> audioBuffer[(k + 1) \div 2]]
    ELSE IF fromChannels = 2 /\ toChannels = 1
    THEN [k \in 1..(Len(audioBuffer) \div 2) |->
             (audioBuffer[2 * k - 1] + audioBuffer[2 * k]) % 256]
    ELSE audioBuffer

\* AudioUtils.convertChannels.  Mono to stereo writes every byte twice;
\* stereo to mono stores Math.round((left + right) / 2) of every pair of
\* bytes, a byte past the end being read as 0.
convertChannels(audioBuffer, fromChannels, toChannels) ==
    IF fromChannels = toChannels THEN audioBuffer
    ELSE IF fromChannels = 1 /\ toChannels = 2
    THEN [k \in 1..(2 * Len(audioBuffer)) |-> audioBuffer[(k + 1) \div 2]]
    ELSE IF fromChannels = 2 /\ toChannels = 1
    THEN [k \in 1..(Len(audioBuffer) \div 2) |->
             (audioBuffer[2 * k - 1] + audioBuffer[2 * k] + 1) \div 2]
    ELSE audioBuffer

\* AudioUtils.isPCM16: an even number of bytes
isPCM16(audioBuffer) == Len(audioBuffer) % 2 = 0

\* AudioUtils.toPCM16: the buffer it returns, or threw = TRUE for the
\* Error it throws
toPCM16(audioBuffer) ==
    IF isPCM16(audioBuffer)
    THEN [threw |-> FALSE, value |-> audioBuffer]
    ELSE IF Len(audioBuffer) = 0
    THEN [threw |-> TRUE, value |-> <<>>]
    ELSE IF Len(audioBuffer) % 2 = 0
    THEN [threw |-> FALSE, value |-> audioBuffer]
    ELSE [threw |-> FALSE, value |-> audioBuffer \o <<0>>]

\* chunkAudio: bytesPerChunk = floor(sampleRate * chunkSizeMs / 1000)
\* samples of 2 bytes for each channel
bytesPerChunk(chunkSizeMs, sampleRate, channels) ==
    ((sampleRate * chunkSizeMs) \div 1000) * (2 * channels)

\* AudioUtils.addSilence: silence of silenceMs behind the buffer
addSilence(audioBuffer, silenceMs, sampleRate, channels) ==
    audioBuffer \o
        Zeros(((sampleRate * silenceMs) \div 1000) * (2 * channels))

RECURSIVE maxAmplitude(_)
\* the first loop of normalize
maxAmplitude(audioBuffer) ==
    IF audioBuffer = <<>> THEN 0
    ELSE Max(Abs(Head(audioBuffer) - 128), maxAmplitude(Tail(audioBuffer)))

\* AudioUtils.normalize, the target level in tenths: every byte becomes
\* Math.round((b - 128) * (level * 128 / max) + 128), kept within 0..255
normalize(audioBuffer, tenths) ==
    LET m == maxAmplitude(audioBuffer)
    IN IF m = 0 THEN audioBuffer
       ELSE [k \in 1..Len(audioBuffer) |->
                Max(0, Min(255,
                    ((audioBuffer[k] - 128) * tenths * 256 + 2570 * m)
                        \div (20 * m)))]

\* config.enableAudioOptimization (server.js: true)
enableAudioOptimization == TRUE

\* AudioPipelineService.optimizeAudioForPlayback
optimizeAudioForPlayback(audioBuffer) ==
    IF ~enableAudioOptimization THEN audioBuffer
    ELSE addSilence(normalize(audioBuffer, 9), 50, 44100, 1)

Fresh == run.fn = "none"

\* toPCM16(given.buffer)
ToPCM16 ==
    /\ Fresh
    /\ run' = [NoRun EXCEPT !.fn = "toPCM16", !.pc = "returned",
                            !.threw = toPCM16(given.buffer).threw,
                            !.value = toPCM16(given.buffer).value]
    /\ UNCHANGED <<given, voiceVars, chatVars, clientVars, retryVars>>

\* convertChannels applied to the given buffer, then to its own result
ConvertChannels(from, to) ==
    /\ run.fn \in {"none", "convertChannels"}
    /\ Len(run.path) < 2
    /\ LET audioBuffer == IF Fresh THEN given.buffer ELSE run.value
       IN run' = [run EXCEPT !.fn = "convertChannels", !.pc = "returned",
                             !.path = Append(@, <<from, to>>),
                             !.mid = audioBuffer,
                             !.value = convertChannels(audioBuffer, from, to)]
    /\ UNCHANGED <<given, voiceVars, chatVars, clientVars, retryVars>>

\* chunkAudio is entered: `chunks = []`, `i = 0`
ChunkAudioEnter ==
    /\ Fresh
    /\ run' = [NoRun EXCEPT !.fn = "chunkAudio", !.pc = "loop"]
    /\ UNCHANGED <<given, voiceVars, chatVars, clientVars, retryVars>>

\* one iteration of `for (i = 0; i < length; i += bytesPerChunk)`
ChunkAudioLoop ==
    /\ run.fn = "chunkAudio"
    /\ run.pc = "loop"
    /\ run.i < Len(given.buffer)
    /\ run.iterations < MaxIterations
    /\ LET step == bytesPerChunk(given.chunkSizeMs, given.sampleRate,
                                 given.channels)
           chunk == Slice(given.buffer, run.i, run.i + step)
       IN run' = [run EXCEPT
                     !.chunks = IF Len(chunk) > 0 THEN Append(@, chunk) ELSE @,
                     !.i = @ + step,
                     !.iterations = @ + 1]
    /\ UNCHANGED <<given, voiceVars, chatVars, clientVars, retryVars>>

\* the loop condition fails: `return chunks`
ChunkAudioReturn ==
    /\ run.fn = "chunkAudio"
    /\ run.pc = "loop"
    /\ ~(run.i < Len(given.buffer))
    /\ run' = [run EXCEPT !.pc = "chunked"]
    /\ UNCHANGED <<given, voiceVars, chatVars, clientVars, retryVars>>

\* AudioUtils.mergeChunks on the chunks returned: their bytes, copied one
\* chunk behind the other
MergeChunks ==
    /\ run.fn = "chunkAudio"
    /\ run.pc = "chunked"
    /\ run' = [run EXCEPT !.pc = "returned", !.value = Concat(run.chunks)]
    /\ UNCHANGED <<given, voiceVars, chatVars, clientVars, retryVars>>

\* optimizeAudioForPlayback(given.buffer), the buffer standing for the
\* synthesized audio
OptimizeAudioForPlayback ==
    /\ Fresh
    /\ run' = [NoRun EXCEPT !.fn = "optimizeAudioForPlayback",
                            !.pc = "returned",
                            !.mid = normalize(given.buffer, 9),
                            !.value = optimizeAudioForPlayback(given.buffer)]
    /\ UNCHANGED <<given, voiceVars, chatVars, clientVars, retryVars>>

AudioNext ==
    \/ ToPCM16
    \/ \E from \in ChannelCounts, to \in ChannelCounts :
          ConvertChannels(from, to)
    \/ ChunkAudioEnter
    \/ ChunkAudioLoop
    \/ ChunkAudioReturn
    \/ MergeChunks
    \/ OptimizeAudioForPlayback

AudioSpec == AudioInit /\ [][AudioNext]_vars

\* ------------------------------------------------------- VoiceWebSocket
\* One action is one callback of the browser's event loop: a call of
\* connect() or disconnect() by the page, an open, error or close event of
\* one of the sockets, or a reconnect timer.  The handlers of a socket are
\* closures over the VoiceWebSocket object and stay attached to the socket
\* when this.ws no longer refers to it.
\*
\* The browser closes a socket in one task: it sets readyState to CLOSED,
\* fires error if the connection was failed, then fires close.  Between the
\* two events only promise callbacks run, so the page may call connect() or
\* disconnect() there, and no timer and no event of another socket comes
\* between.
NewSocket ==
    [readyState |-> "CONNECTING", failed |-> FALSE, closeDue |-> FALSE,
     inits |-> 0]

TwoTo(n) == IF n <= 0 THEN 1 ELSE 2 ^ n

NoCloseDue == \A s \in DOMAIN sockets : ~sockets[s].closeDue

\* websocket.ts:102-108 as called from onopen: the message goes out on
\* this.ws if that socket is open
send(socks) ==
    IF thisWs # 0 /\ socks[thisWs].readyState = "OPEN"
    THEN [socks EXCEPT ![thisWs].inits = @ + 1]
    ELSE socks

\* websocket.ts:22-87, up to the return of connect()
connect(op) ==
    IF thisWs # 0 /\ sockets[thisWs].readyState = "OPEN"
    THEN /\ clientLast' = [NoCall EXCEPT !.op = op, !.outcome = "resolved"]
         /\ UNCHANGED <<sockets, thisWs, isConnecting>>
    ELSE IF isConnecting
    THEN /\ clientLast' = [NoCall EXCEPT !.op = op, !.outcome = "rejected"]
         /\ UNCHANGED <<sockets, thisWs, isConnecting>>
    ELSE /\ Len(sockets) < MaxSockets
         /\ isConnecting' = TRUE
         /\ sockets' = Append(sockets, NewSocket)
         /\ thisWs' = Len(sockets) + 1
         /\ clientLast' = [NoCall EXCEPT !.op = op, !.outcome = "created",
                                         !.socket = Len(sockets) + 1]

\* the page calls connect()
UserConnect ==
    /\ calls < MaxCalls
    /\ calls' = calls + 1
    /\ connect("connect")
    /\ disconnected' = FALSE
    /\ UNCHANGED <<reconnectAttempts, timers, sinceOpen>>
    /\ UNCHANGED <<voiceVars, chatVars, audioVars, retryVars>>

\* websocket.ts:152-157.  close() on a connecting socket fails the
\* connection, on an open socket it starts the closing handshake, on a
\* closing or closed socket it does nothing.
disconnect ==
    /\ calls < MaxCalls
    /\ calls' = calls + 1
    /\ IF thisWs # 0
       THEN /\ sockets' =
                  [sockets EXCEPT ![thisWs] =
                      IF @.readyState = "CONNECTING"
                      THEN [@ EXCEPT !.readyState = "CLOSING",
                                     !.failed = TRUE]
                      ELSE IF @.readyState = "OPEN"
                      THEN [@ EXCEPT !.readyState = "CLOSING"]
                      ELSE @]
            /\ thisWs' = 0
       ELSE UNCHANGED <<sockets, thisWs>>
    /\ disconnected' = TRUE
    /\ clientLast' = [NoCall EXCEPT !.op = "disconnect", !.socket = thisWs]
    /\ UNCHANGED <<isConnecting, reconnectAttempts, timers, sinceOpen>>
    /\ UNCHANGED <<voiceVars, chatVars, audioVars, retryVars>>

\* websocket.ts:43-56: the open event of socket s
onopen(s) ==
    /\ NoCloseDue
    /\ sockets[s].readyState = "CONNECTING"
    /\ isConnecting' = FALSE
    /\ reconnectAttempts' = 0
    /\ sockets' = send([sockets EXCEPT ![s].readyState = "OPEN"])
    /\ sinceOpen' = 0
    /\ clientLast' = [NoCall EXCEPT !.op = "open", !.socket = s]
    /\ UNCHANGED <<thisWs, timers, disconnected, calls>>
    /\ UNCHANGED <<voiceVars, chatVars, audioVars, retryVars>>

\* websocket.ts:76-80: the error event of socket s, whose connection failed
\* or was failed by close().  The reject of a settled promise does nothing.
onerror(s) ==
    /\ NoCloseDue
    /\ \/ sockets[s].readyState \in {"CONNECTING", "OPEN"}
       \/ sockets[s].readyState = "CLOSING"
    /\ sockets' = [sockets EXCEPT ![s].readyState = "CLOSED",
                                  ![s].closeDue = TRUE]
    /\ isConnecting' = FALSE
    /\ clientLast' = [NoCall EXCEPT !.op = "error", !.socket = s]
    /\ UNCHANGED <<thisWs, reconnectAttempts, timers, disconnected,
                   sinceOpen, calls>>
    /\ UNCHANGED <<voiceVars, chatVars, audioVars, retryVars>>

\* websocket.ts:89-100
scheduleReconnect ==
    /\ reconnectAttempts' = reconnectAttempts + 1
    /\ timers' = Append(timers,
                        [delay |-> reconnectDelay *
                                       TwoTo((reconnectAttempts + 1) - 1),
                         attempt |-> sinceOpen + 1])
    /\ sinceOpen' = sinceOpen + 1

onclose_SchedulesAtLimit(s, code) ==
    /\ code \in CloseCodes
    /\ \/ /\ sockets[s].closeDue
          /\ code = 1006
       \/ /\ NoCloseDue
          /\ sockets[s].readyState \in {"OPEN", "CLOSING"}
          /\ ~sockets[s].failed
    /\ sockets' = [sockets EXCEPT ![s].readyState = "CLOSED",
                                  ![s].closeDue = FALSE]
    /\ isConnecting' = FALSE
    /\ IF code # 1000 /\ reconnectAttempts <= maxReconnectAttempts
       THEN scheduleReconnect
       ELSE UNCHANGED <<reconnectAttempts, timers, sinceOpen>>
    /\ clientLast' = [NoCall EXCEPT !.op = "close", !.socket = s,
                                    !.code = code]
    /\ UNCHANGED <<thisWs, disconnected, calls>>
    /\ UNCHANGED <<voiceVars, chatVars, audioVars, retryVars>>

\* websocket.ts:67-74: the close event of socket s.  It follows the error
\* event of a failed connection with code 1006; an open or closing socket
\* closes with the code of the closing handshake, or with 1006 when the
\* connection is lost.
onclose(s, code) ==
    /\ code \in CloseCodes
    /\ \/ /\ sockets[s].closeDue
          /\ code = 1006
       \/ /\ NoCloseDue
          /\ sockets[s].readyState \in {"OPEN", "CLOSING"}
          /\ ~sockets[s].failed
    /\ sockets' = [sockets EXCEPT ![s].readyState = "CLOSED",
                                  ![s].closeDue = FALSE]
    /\ isConnecting' = FALSE
    /\ IF code # 1000 /\ reconnectAttempts < maxReconnectAttempts
       THEN scheduleReconnect
       ELSE UNCHANGED <<reconnectAttempts, timers, sinceOpen>>
    /\ clientLast' = [NoCall EXCEPT !.op = "close", !.socket = s,
                                    !.code = code]
    /\ UNCHANGED <<thisWs, disconnected, calls>>
    /\ UNCHANGED <<voiceVars, chatVars, audioVars, retryVars>>

\* a timer set earlier with a delay that is not longer fires first
Due(j) == \A k \in 1..(j - 1) : timers[k].delay > timers[j].delay

WithoutTimer(j) ==
    [k \in 1..(Len(timers) - 1) |-> IF k < j THEN timers[k]
                                             ELSE timers[k + 1]]

\* websocket.ts:95-99: the callback of setTimeout
ReconnectTimer(j) ==
    /\ NoCloseDue
    /\ j \in 1..Len(timers)
    /\ Due(j)
    /\ connect("timer")
    /\ timers' = WithoutTimer(j)
    /\ UNCHANGED <<reconnectAttempts, disconnected, sinceOpen, calls>>
    /\ UNCHANGED <<voiceVars, chatVars, audioVars, retryVars>>

ClientNext ==
    \/ UserConnect
    \/ disconnect
    \/ \E s \in 1..MaxSockets :
          /\ s \in DOMAIN sockets
          /\ \/ onopen(s)
             \/ onerror(s)
             \/ \E code \in CloseCodes : onclose(s, code)
    \/ \E j \in 1..MaxSockets : ReconnectTimer(j)

ClientSpec == Init /\ [][ClientNext]_vars

\* ----------------------------------------------------- retryWithBackoff
\* retryWithBackoff is called with every maxRetries up to MaxRetries and
\* with every way the calls of fn may settle
RetryInit ==
    /\ PipelineInit
    /\ ChatInit
    /\ ClientInit
    /\ given = NoInput
    /\ run = NoRun
    /\ retryGiven \in [maxRetries : 0..MaxRetries,
                       settles : [1..MaxRetries -> Outcomes]]
    /\ retry = RetryIdle

\* retry.utils.ts:6-8: the loop test, and the call of fn
RetryLoop ==
    /\ retry.pc = "loop"
    /\ retry' =
          IF retry.i < retryGiven.maxRetries
          THEN [retry EXCEPT !.pc = "await", !.calls = @ + 1]
          ELSE [retry EXCEPT !.pc = "threw",
                             !.threw = [kind |-> "Max retries exceeded",
                                        call |-> 0]]
    /\ UNCHANGED <<retryGiven, voiceVars, chatVars, audioVars, clientVars>>

FnSettles_RetriesLastCall ==
    /\ retry.pc = "await"
    /\ LET kind == retryGiven.settles[retry.calls]
           settled == [kind |-> kind, call |-> retry.calls]
       IN retry' =
             IF kind = "ok"
             THEN [retry EXCEPT !.pc = "returned", !.returned = settled]
             ELSE IF kind = "e429" /\ retry.i < retryGiven.maxRetries
             THEN [retry EXCEPT !.pc = "wait",
                                !.delays = Append(@, TwoTo(retry.i) * 1000)]
             ELSE [retry EXCEPT !.pc = "threw", !.threw = settled]
    /\ UNCHANGED <<retryGiven, voiceVars, chatVars, audioVars, clientVars>>

\* retry.utils.ts:8-19: the promise of fn settles.  An error has status 429
\* only if fn was rate limited.
FnSettles ==
    /\ retry.pc = "await"
    /\ LET kind == retryGiven.settles[retry.calls]
           settled == [kind |-> kind, call |-> retry.calls]
       IN retry' =
             IF kind = "ok"
             THEN [retry EXCEPT !.pc = "returned", !.returned = settled]
             ELSE IF kind = "e429" /\ retry.i < retryGiven.maxRetries - 1
             THEN [retry EXCEPT !.pc = "wait",
                                !.delays = Append(@, TwoTo(retry.i) * 1000)]
             ELSE [retry EXCEPT !.pc = "threw", !.threw = settled]
    /\ UNCHANGED <<retryGiven, voiceVars, chatVars, audioVars, clientVars>>

\* retry.utils.ts:14-17, 6: the delay has passed; continue with i++
RetryWake ==
    /\ retry.pc = "wait"
    /\ retry' = [retry EXCEPT !.pc = "loop", !.i = @ + 1]
    /\ UNCHANGED <<retryGiven, voiceVars, chatVars, audioVars, clientVars>>

RetryNext ==
    \/ RetryLoop
    \/ FnSettles
    \/ RetryWake

RetrySpec == RetryInit /\ [][RetryNext]_vars

\* fn settles, and the timer of the delay fires
RetryFairSpec ==
    /\ RetrySpec
    /\ WF_vars(RetryLoop)
    /\ WF_vars(FnSettles)
    /\ WF_vars(RetryWake)

\* ---------------------------------------------------------------- claims
CycleExits ==
    {"throw_recognize", "blank", "reply_failed", "reply_null",
     "throw_synthesize", "ok"}

CyclesOf(s) == {h \in DOMAIN inflight : inflight[h].sid = s}

BufferOf(s) == IF s \in DOMAIN audioChunks THEN audioChunks[s] ELSE <<>>

\* C1: for every session at most one processing cycle is in flight at any
\* time, also across clearSession and close/reconnect with the same id.
C1_SingleFlight == \A s \in Sessions : Cardinality(CyclesOf(s)) <= 1

\* C2: when a cycle has ended, on whichever exit path, the session's buffer
\* holds exactly the chunks appended while the cycle was in flight, in
\* arrival order.
C2_BufferAfterCycle ==
    last.op \in CycleExits => last.after = last.during

\* C3: every cycle that starts ends once its collaborator calls settle, the
\* guard is released on every exit path, and the guard is never set for a
\* session that has no cycle running.
C3_GuardReleased ==
    /\ [](\A s \in processingSessions : CyclesOf(s) # {})
    /\ [](last.op \in CycleExits => ~last.guardAfter)
    /\ \A h \in ChunkIds :
          (h \in DOMAIN inflight) ~> (h \notin DOMAIN inflight)

C3_Witness ==
    /\ last.op = "throw_synthesize"
    /\ last.sid \notin processingSessions
    /\ CyclesOf(last.sid) = {}

\* C4: an exception raised inside a cycle is turned into a result with
\* transcript '' and confidence 0 and an error, and once that result is
\* returned the session's guard is released and its buffer is cleared.
C4_ErrorResultClears ==
    last.op \in {"throw_recognize", "throw_synthesize"} =>
        /\ last.result.error
        /\ last.result.transcript = ""
        /\ last.result.confidence = 0
        /\ ~last.guardAfter
        /\ last.after = <<>>

\* C5: recognition is only ever awaited on a merged buffer of at least
\* 500 ms: a cycle starts only when that much audio is buffered.
C5_ThresholdBeforeRecognition ==
    \A h \in DOMAIN inflight :
        inflight[h].pc = "recognize" =>
            inflight[h].merged.length * 1000 >= 500 * 2 * 16000

C5_Witness ==
    \E h \in DOMAIN inflight :
        /\ inflight[h].pc = "recognize"
        /\ Len(inflight[h].merged.parts) = 3
        /\ inflight[h].merged.length = 19200

\* C6: the audio of one window is handed to recognition once and only
\* once, whether its cycle succeeds, ends early or fails: no accepted chunk
\* is part of two merged buffers.
C6_RecognizedOnce == \A c \in ChunkIds : recognized[c] <= 1

\* C7: a chunk that arrives while the guard is held stays in the buffer
\* until a cycle has merged it: it is never discarded unrecognized.
C7_DeferredChunkKept ==
    \A d \in deferred :
        \/ d.id \in Ids(BufferOf(d.sid))
        \/ recognized[d.id] >= 1

ValidChunk(c) == c.len >= 100 /\ c.len % 2 = 0 /\ c.distinct >= 10

\* C8: no chunk that fails validation (under 100 bytes, odd length, under
\* 10 distinct byte values) is part of a merged buffer handed to
\* recognition.
C8_OnlyValidChunksMerged ==
    \A h \in DOMAIN inflight :
        \A i \in 1..Len(inflight[h].merged.parts) :
            ValidChunk(inflight[h].merged.parts[i])

\* a cycle started on the only connection made so far, still registered,
\* after one of the two messages it received was not accepted: that message
\* was rejected
C8_Witness ==
    /\ last.op = "start"
    /\ nextWs = 2
    /\ wsSession[1] \in DOMAIN connections
    /\ received = 2
    /\ nextChunk = 2

\* C9: handling a chunk that fails validation changes neither the buffers,
\* the guard, the statistics (no session state is created) nor the
\* registry and the sockets' state.
C9_RejectChangesNothing ==
    [][(last'.op = "reject" /\ received' # received) =>
           UNCHANGED <<audioChunks, processingSessions, sessionStats,
                       connections, wsState>>]_vars

\* a chunk is rejected for a session that holds buffered audio, on a socket
\* that is open
C9_Witness ==
    /\ last.op = "reject"
    /\ BufferOf(last.sid) # <<>>
    /\ wsState[last.ws] = "open"

\* C10: when recognition, reply generation or synthesis fails during a
\* cycle, the client is sent an `error` message for that failure.
C10_FailureSentAsError ==
    last.op \in {"throw_recognize", "reply_failed", "throw_synthesize"} =>
        \E i \in 1..Len(last.msgs) : last.msgs[i].type = "error"

\* the sockets that were opened for session s
SocketsOf(s) == {w \in WsIds : wsState[w] # "new" /\ wsSession[w] = s}

\* C11: once the connections of a session are closed and no handler of the
\* session is in flight any more, the session is deregistered and the
\* pipeline holds no buffer, no processing flag and no statistics for it.
C11_TornDownAfterClose ==
    \A s \in Sessions :
        (/\ SocketsOf(s) # {}
         /\ \A w \in SocketsOf(s) : wsState[w] = "closed"
         /\ CyclesOf(s) = {})
        => /\ s \notin DOMAIN connections
           /\ s \notin DOMAIN audioChunks
           /\ s \notin processingSessions
           /\ s \notin DOMAIN sessionStats

\* C12: a cycle that ends after its connection was closed sends nothing on
\* the closed connection, releases the guard and leaves the buffer cleared.
C12_NothingSentOnClosed ==
    (last.op \in CycleExits /\ wsState[last.ws] = "closed") =>
        /\ last.msgs = <<>>
        /\ ~last.guardAfter
        /\ last.after = <<>>

\* C13: a ping is answered with exactly one pong on the connection it
\* arrived on, and handling it changes neither the buffers, the guard, the
\* statistics, the registry, the sockets nor the handlers in flight.
C13_PingPong ==
    [][(last' # last /\ last'.op = "ping") =>
           /\ last'.msgs = <<Msg("pong", "")>>
           /\ last'.ws = last'.from
           /\ UNCHANGED pipelineAndSockets]_vars

\* a ping is answered while a cycle of its session is in flight
C13_Witness ==
    /\ last.op = "ping"
    /\ last.sid \in processingSessions
    /\ BufferOf(last.sid) # <<>>
    /\ last.sid \in DOMAIN sessionStats

\* C14: when reply generation returns null for a non-blank transcript, the
\* transcription is sent and nothing else: no audio_response follows, and
\* synthesis was not called in that cycle.
C14_NullReplyTextOnly ==
    last.op \in {"reply_null", "reply_failed"} =>
        /\ last.result.transcript # ""
        /\ last.msgs = <<Msg("transcription", last.sid)>>
        /\ \A i \in 1..Len(last.calls) : last.calls[i] # "synthesize"

\* reply generation returned null in a cycle whose socket is still open
\* and registered
C14_Witness ==
    /\ last.op = "reply_null"
    /\ last.calls = <<"recognize", "reply">>
    /\ wsState[last.ws] = "open"
    /\ last.sid \in DOMAIN connections
    /\ connections[last.sid] = last.ws

\* C15: a request refused for the rate limit is answered with remaining = 0
\* and a resetTime strictly after the time of the answer, and no assistant
\* message of that request is stored.
C15_RefusalInfo ==
    chatLast.status = 429 =>
        /\ chatLast.remaining = 0
        /\ chatLast.resetTime > chatLast.at
        /\ \A i \in 1..Len(chatSessionKey.val.messages) :
              chatSessionKey.val.messages[i] #
                  [req |-> chatLast.req, role |-> "assistant"]
        /\ MsgId(chatLast.req, "assistant") \notin messageKeys

\* C16: a message that cannot be parsed or whose handler fails is answered
\* with an `error` message on the connection it arrived on, and the
\* connection stays open and registered as it was.
C16_FailureKeepsConnection ==
    last.op \in {"parse_error", "handler_error"} =>
        /\ \E i \in 1..Len(last.msgs) : last.msgs[i].type = "error"
        /\ last.ws = last.from
        /\ wsState[last.from] = "open"

\* C17: a message of unknown type is ignored: nothing is sent, no state
\* changes, and the connection stays open.
C17_UnknownIgnored ==
    [][(last' # last /\ last'.op = "unknown") =>
           /\ last'.msgs = <<>>
           /\ wsState'[last'.from] = "open"
           /\ UNCHANGED pipelineAndSockets
           /\ UNCHANGED firstSent]_vars

\* a message of unknown type arrives while a cycle of its session is in
\* flight
C17_Witness ==
    /\ last.op = "unknown"
    /\ wsState[last.from] = "open"
    /\ last.sid \in processingSessions
    /\ BufferOf(last.sid) # <<>>

\* C18: after session_init carrying session id S, the connection is
\* associated with S: the connection_established that answers it carries S
\* and the handlers of that connection run under S.
C18_InitAssociates ==
    last.op = "session_init" =>
        /\ last.msgs = <<Msg("connection_established", last.arg)>>
        /\ wsSession[last.from] = last.arg

\* C19: every connection is registered under its session id when it is
\* made, and the first message the server ever sends on it is
\* connection_established carrying that id.
C19_AckFirst ==
    /\ \A w \in WsIds :
          wsState[w] # "new" =>
              firstSent[w] = Msg("connection_established", wsSession[w])
    /\ last.op = "connect" =>
          /\ last.sid \in DOMAIN connections
          /\ connections[last.sid] = last.ws

\* the second connection of a run, made while the first was open, has
\* been sent a pong after its connection_established
C19_Witness ==
    /\ last.op = "ping"
    /\ last.ws = 2
    /\ wsState[1] = "open"
    /\ firstSent[2].type = "connection_established"

\* what the pipeline holds for session s
PipelineState(s) ==
    [hasBuffer |-> s \in DOMAIN audioChunks,
     buffer |-> BufferOf(s),
     guard |-> s \in processingSessions,
     hasStats |-> s \in DOMAIN sessionStats,
     stats |-> IF s \in DOMAIN sessionStats THEN sessionStats[s]
               ELSE NewStats]

\* C20: a step of one session (a message, a cycle step, a close or a
\* connect of that session) leaves the buffer, the guard and the
\* statistics of every other session as they were.
C20_SessionsIndependent ==
    [][\A s \in Sessions :
          (last' = last \/ last'.sid # s) =>
              PipelineState(s)' = PipelineState(s)]_vars

\* a connection of one session closes while the other session has a cycle
\* in flight and statistics
C20_Witness ==
    /\ last.op = "close"
    /\ \E t \in processingSessions :
          /\ t # last.sid
          /\ t \in DOMAIN sessionStats
          /\ BufferOf(t) # <<>>

\* the collaborators of a cycle in the order processAccumulatedAudio calls
\* them
CallOrder == <<"recognize", "reply", "synthesize">>

\* C25: within one cycle the collaborators are called in the order
\* recognition, reply, synthesis, each at most once: the calls made so far
\* are a prefix of that order.  A cycle whose recognition failed or gave a
\* blank transcript has called recognition only; a cycle whose reply was
\* null has called recognition and reply only and had a non-blank
\* transcript; a blank transcript leaves the buffer cleared.
C25_CallsInOrder ==
    /\ \A h \in DOMAIN inflight :
           /\ Len(inflight[h].calls) \in 1..3
           /\ inflight[h].calls = SubSeq(CallOrder, 1, Len(inflight[h].calls))
           /\ inflight[h].pc = inflight[h].calls[Len(inflight[h].calls)]
    /\ last.op \in {"blank", "throw_recognize"} =>
           last.calls = SubSeq(CallOrder, 1, 1)
    /\ last.op \in {"reply_null", "reply_failed"} =>
           /\ last.calls = SubSeq(CallOrder, 1, 2)
           /\ last.result.transcript # ""
    /\ last.op \in {"ok", "throw_synthesize"} => last.calls = CallOrder
    /\ last.op = "blank" => last.after = <<>>

\* a cycle ended on a blank transcript after chunks arrived during it, and
\* another went through all three collaborators
C25_Witness ==
    /\ last.op = "blank"
    /\ last.consumed # <<>>
    /\ last.during # <<>>
    /\ last.calls = <<"recognize">>

C25_WitnessFull ==
    /\ last.op = "ok"
    /\ last.calls = CallOrder

\* C26: while a cycle of a session is in flight, a further valid chunk of
\* that session is accepted: it is appended at the end of the session's
\* buffer, after the chunks that arrived before it, and acknowledged; while
\* the guard is held the step starts no second cycle.
C26_AppendedDuringCycle ==
    [][(/\ received' # received
        /\ last'.op \in {"append", "deferred", "start"}
        /\ CyclesOf(last'.sid) # {})
       => /\ last'.sid \in DOMAIN audioChunks'
          /\ Len(audioChunks'[last'.sid]) = Len(BufferOf(last'.sid)) + 1
          /\ SubSeq(audioChunks'[last'.sid], 1, Len(BufferOf(last'.sid)))
                 = BufferOf(last'.sid)
          /\ audioChunks'[last'.sid][Len(BufferOf(last'.sid)) + 1].id
                 = nextChunk
          /\ \A h \in CyclesOf(last'.sid) :
                 inflight'[h].during[Len(inflight'[h].during)].id = nextChunk
          /\ last'.sid \in processingSessions =>
                 /\ last'.op # "start"
                 /\ DOMAIN inflight' = DOMAIN inflight
                 /\ last'.msgs = <<Msg("audio_received", last'.sid)>>]_vars

\* a chunk was appended behind an earlier one while the cycle that holds
\* the guard is still in flight
C26_Witness ==
    /\ last.op \in {"append", "deferred"}
    /\ last.sid \in processingSessions
    /\ CyclesOf(last.sid) # {}
    /\ Len(last.after) >= 2
    /\ last.after[Len(last.after)].id = last.h

\* C27: when two connections were opened under one session id, the
\* registry entry of the session is released only by the teardown (close or
\* error) of the connection that owns it: closing the older connection
\* leaves the newer one registered.
C27_ReleasedByOwnerOnly ==
    [][\A s \in DOMAIN connections :
           s \notin DOMAIN connections' =>
               /\ last'.op \in {"close", "error"}
               /\ last'.ws = connections[s]]_vars

\* the latencies recorded for session s
TimesOf(s) ==
    IF s \in DOMAIN sessionStats THEN sessionStats[s].processingTimes
    ELSE <<>>

\* C28: the list of recent latencies of a session never holds more than 10
\* samples, and a call that was deferred because the guard was held records
\* no latency: it leaves the list as it was.
C28_LatencyOnlyForCycles ==
    [][/\ \A s \in DOMAIN sessionStats' :
              Len(sessionStats'[s].processingTimes) <= 10
       /\ (received' # received /\ last'.op = "deferred") =>
              /\ last'.sid \in DOMAIN sessionStats'
              /\ sessionStats'[last'.sid].processingTimes
                     = TimesOf(last'.sid)]_vars

C21_WitnessTwoWindows ==
    /\ acceptedInSession = 6
    /\ acceptedInWindow = 1

\* C30: the window counter always carries an expiry, in the first window
\* and in every later one, so that a session refused for the window limit
\* alone is accepted again once the window has elapsed.
C30_WindowCounterExpires ==
    rateLimitKey.present => rateLimitKey.ttl > 0

\* C22: mergeChunks(chunkAudio(b, ms, rate, channels)) is b, byte for byte,
\* for every buffer, duration, rate and channel count: every iteration of
\* the loop cuts a non-empty chunk that starts where the previous one
\* ended (the last one may be shorter), so that the loop is over within
\* Len(b) iterations and the chunks merged are b.
C22_ChunksRoundTrip ==
    run.fn = "chunkAudio" =>
        /\ \A k \in 1..Len(run.chunks) : run.chunks[k] # <<>>
        /\ Concat(run.chunks)
               = SubSeq(given.buffer, 1, Min(run.i, Len(given.buffer)))
        /\ Len(run.chunks) = run.iterations
        /\ run.iterations <= Len(given.buffer)
        /\ run.pc = "returned" => run.value = given.buffer

\* the 16-bit little-endian sample k of a buffer
Sample16(b, k) == b[2 * k - 1] + 256 * b[2 * k]

\* C23: convertChannels(convertChannels(b, 1, 2), 2, 1) has the length of
\* b, and each of its bytes and each of its 16-bit samples differs from
\* that of b by at most 1.
C23_RoundTripWithinOne ==
    (run.fn = "convertChannels" /\ run.path = <<<<1, 2>>, <<2, 1>>>>) =>
        /\ Len(run.value) = Len(given.buffer)
        /\ \A k \in 1..Len(given.buffer) :
               Abs(run.value[k] - given.buffer[k]) <= 1
        /\ \A k \in 1..(Len(given.buffer) \div 2) :
               Abs(Sample16(run.value, k) - Sample16(given.buffer, k)) <= 1

\* a buffer of four bytes, not all equal, went to stereo (eight bytes) and
\* back
C23_Witness ==
    /\ run.fn = "convertChannels"
    /\ run.path = <<<<1, 2>>, <<2, 1>>>>
    /\ Len(given.buffer) = 4
    /\ Len(run.mid) = 8
    /\ given.buffer[1] # given.buffer[2]
    /\ given.buffer[3] = 200

\* C24: toPCM16 rejects an empty buffer with a validation error, returns a
\* buffer of even length unchanged, and returns a buffer of odd length
\* extended by exactly one trailing zero byte.
C24_ToPCM16Cases ==
    run.fn = "toPCM16" =>
        /\ Len(given.buffer) = 0 => run.threw
        /\ (Len(given.buffer) # 0 /\ Len(given.buffer) % 2 = 0) =>
               ~run.threw /\ run.value = given.buffer
        /\ Len(given.buffer) % 2 = 1 =>
               ~run.threw /\ run.value = given.buffer \o <<0>>

\* C29: the audio prepared for playback is 50 ms of silence (zero bytes,
\* 44100 Hz, mono, 16 bit) followed by the normalized synthesized audio.
C29_SilenceBeforeAudio ==
    run.fn = "optimizeAudioForPlayback" =>
        run.value = Zeros(4410) \o normalize(given.buffer, 9)

\* C34: chunkAudio terminates for every buffer, chunk duration, sample rate
\* and channel count, a chunk size of 0 bytes included: every iteration of
\* its loop moves the index i forward, towards the end of the buffer.
C34_LoopAdvances ==
    [][(run.fn = "chunkAudio" /\ run'.iterations # run.iterations) =>
           run'.i > run.i]_vars

\* the handlers of audio_data messages that have run to their end on a
\* registered connection
AudioHandled ==
    {"append", "deferred", "reject", "handler_error"} \cup CycleExits

\* the response groups of an audio_data message
ResponseGroups(sid) ==
    {<<Msg("audio_received", sid)>>,
     <<Msg("transcription", sid)>>,
     <<Msg("transcription", sid), Msg("audio_response", sid)>>,
     <<Msg("error", sid)>>}

\* C33: an audio_data message handled on a registered connection is
\* answered with exactly one response group: one audio_received, or one
\* transcription optionally followed by one audio_response, or one error;
\* an audio_response comes only right after the transcription of its cycle.
C33_OneResponseGroup ==
    last.op \in AudioHandled =>
        /\ last.ws # 0
        /\ last.msgs \in ResponseGroups(last.sid)
        /\ \A i \in 1..Len(last.msgs) :
               last.msgs[i].type = "audio_response" =>
                   /\ i > 1
                   /\ last.msgs[i - 1].type = "transcription"
                   /\ last.op = "ok"

\* a cycle that ran through synthesis answered with a transcription and
\* the audio_response right behind it
C33_Witness ==
    /\ last.op = "ok"
    /\ last.msgs = <<Msg("transcription", last.sid),
                     Msg("audio_response", last.sid)>>
    /\ wsState[last.ws] = "open"

\* the steps of a request that come after incrementRateLimit
PastIncrement == {"add_get", "add_set", "add_key", "generate"}

\* request r takes the step
Moved(r) == r \notin DOMAIN requests' \/ requests'[r] # requests[r]

StoredIds ==
    [p \in 1..Len(chatSessionKey.val.messages) |->
        MsgId(chatSessionKey.val.messages[p].req,
              chatSessionKey.val.messages[p].role)]

\* where message id stands in the stored list, 0 when it is not there
PositionOf(id) ==
    IF \E p \in 1..Len(StoredIds) : StoredIds[p] = id
    THEN CHOOSE p \in 1..Len(StoredIds) : StoredIds[p] = id
    ELSE 0

\* every message for which addMessageToSession has completed is in the
\* stored list, in the order of completion, and messageCount is the length
\* of the list
CompletedStored ==
    /\ chatSessionKey.val.messageCount = Len(chatSessionKey.val.messages)
    /\ \A i \in 1..Len(completed) : PositionOf(completed[i]) # 0
    /\ \A i \in 1..(Len(completed) - 1) :
           PositionOf(completed[i]) < PositionOf(completed[i + 1])

\* C32: while the session key lives, every message for which
\* addMessageToSession has completed is in the session's stored list, in
\* completion order, and messageCount is the length of the list, also when
\* two calls for the same session interleave: the write of a call takes no
\* completed message out of the list.
C32_AddKeepsCompleted ==
    [][(/\ \E r \in DOMAIN requests :
              /\ requests[r].pc = "add_set"
              /\ r \in DOMAIN requests'
              /\ requests'[r].pc = "add_key"
        /\ chatSessionKey.present
        /\ CompletedStored)
       => CompletedStored']_vars

\* C35: after disconnect() the client creates no socket until the page
\* calls connect() again, also when a reconnect timer is pending.
C35_NoSocketAfterDisconnect ==
    [][(disconnected /\ disconnected') => Len(sockets') = Len(sockets)]_vars

LiveSockets ==
    {s \in DOMAIN sockets : sockets[s].readyState \in {"CONNECTING", "OPEN"}}

\* C36: at no time are two sockets of the client connecting or open.
C36_OneLiveSocket == Cardinality(LiveSockets) <= 1

\* C37: between two opens the client schedules at most maxReconnectAttempts
\* reconnects; an open event sets the counter to 0; a close with code 1000
\* schedules nothing; the k-th reconnect since the last open is delayed by
\* reconnectDelay * 2^(k-1) ms.
C37_BoundedBackoff ==
    /\ [](/\ sinceOpen <= maxReconnectAttempts
          /\ \A j \in 1..Len(timers) :
                timers[j].delay = reconnectDelay * TwoTo(timers[j].attempt - 1))
    /\ [][/\ clientLast'.op = "open" => reconnectAttempts' = 0
          /\ (clientLast'.op = "close" /\ clientLast'.code = 1000)
                => timers' = timers
          /\ Len(timers') > Len(timers)
                => /\ clientLast'.op = "close"
                   /\ clientLast'.code # 1000
                   /\ sinceOpen' = sinceOpen + 1]_vars

\* the sixth abnormal close in a row: five reconnects were scheduled and
\* have fired, and this close schedules none
C37_Witness ==
    /\ clientLast.op = "close"
    /\ clientLast.code = 1006
    /\ sinceOpen = maxReconnectAttempts
    /\ timers = <<>>
    /\ Len(sockets) > maxReconnectAttempts

\* the fourth reconnect in a row is pending, with its delay of 8000 ms
C37_WitnessDelay ==
    /\ Len(timers) > 0
    /\ timers[Len(timers)].delay = 8 * reconnectDelay

Temporary == {"e429", "e503", "timeout"}

\* C38: when fn fails with a 429 or with another temporary error and
\* attempts remain, the error is not thrown to the caller (fn is retried
\* after a delay).
C38_TemporaryRetried ==
    (retry.pc = "threw" /\ retry.threw.kind \in Temporary)
        => retry.calls = retryGiven.maxRetries

FailedCalls(n) == \A k \in 1..n : retryGiven.settles[k] # "ok"

\* C39: retryWithBackoff terminates; it calls fn at most maxRetries times;
\* what it returns is the result of the first successful call, after which
\* fn is not called again; when the last allowed call fails, its error is
\* the one thrown.
C39_Terminates ==
    /\ <>(retry.pc \in {"returned", "threw"})
    /\ [](/\ retry.calls <= retryGiven.maxRetries
          /\ retry.pc = "returned"
                => /\ retry.returned = [kind |-> "ok", call |-> retry.calls]
                   /\ FailedCalls(retry.calls - 1)
          /\ (/\ retry.pc = "threw"
              /\ retry.calls = retryGiven.maxRetries
              /\ retry.calls > 0)
                => retry.threw = [kind |-> retryGiven.settles[retry.calls],
                                  call |-> retry.calls])
    /\ [][retry.pc \in {"returned", "threw"} => retry'.calls = retry.calls]_vars

\* the third and last allowed call was rate limited as the two before, and
\* its error was thrown
C39_Witness ==
    /\ retry.pc = "threw"
    /\ retry.calls = 3
    /\ retry.threw = [kind |-> "e429", call |-> 3]
    /\ retry.delays = <<1000, 2000>>

\* the second call succeeded after one delay
C39_WitnessReturned ==
    /\ retry.pc = "returned"
    /\ retry.returned.call = 2
    /\ retry.delays = <<1000>>

====
